---------------------------- MODULE Spec2Model ----------------------------
(***************************************************************************)
(* A model of infrastructure/octopus.py: the resolution-and-extraction     *)
(* layer in front of the Octopus Deploy REST API.                          *)
(*                                                                         *)
(* Python strings are modelled as sequences of one-character strings, so   *)
(* that startswith, lower, strip and concatenation are computed and not    *)
(* assumed.  Python dicts are modelled as functions or records, lists as   *)
(* sequences, None as the record [kind |-> "None"].                        *)
(*                                                                         *)
(* The module holds several state machines over one set of variables; a    *)
(* specification runs one of them and leaves the variables of the others   *)
(* at their idle values.                                                   *)
(***************************************************************************)
EXTENDS Integers, Sequences, FiniteSets, TLC

VARIABLES
    \* ---- handle_response (SpecResponse)
    response,        \* the response object the callback returned
    handled,         \* what handle_response did with it
    \* ---- *_generator (SpecPaginator)
    batches,         \* the sizes of the batches the listing endpoint answers with
    skip,            \* the generator's local skip
    batch,           \* the batch being iterated
    idx,             \* position of the for loop in the batch
    gen_pc,          \* where the generator is suspended
    requests,        \* the page requests issued so far, <<skip, take>> each
    yielded,         \* the items the consumer has received so far
    attempts,        \* the attempt of the retry decorator of the batch function
    received,        \* the sizes of the batches received so far
    gen_error,       \* the exception that left the generator, "none" if none did
    consumer,        \* "pulling" while the consumer asks for items, then "stopped"
    caller,          \* "for": a loop over one generator; "first": the first items of three
    firsts,          \* the requests and items of the generators "first" is done with
    \* ---- activity_logs_to_string (SpecLogs)
    activity_logs,   \* the ActivityLogs of the task details: a list of root nodes
    sanitized_steps, \* sanitized_steps
    categories,      \* categories
    include_name,    \* include_name
    log_pc,          \* "call" before the rendering, "done" after
    rendered,        \* the lines and the joined string of the rendering
    \* ---- the cached lookups (SpecCache)
    environment_cache,  \* environment_cache[octopus_url][space_id][environment_name]
    tenant_cache,       \* tenant_cache[octopus_url][space_id][tenant_name]
    channel_cache,      \* channel_cache[octopus_url][space_id][channel_id]
    n_calls,         \* how many cached lookups were made
    last_call,       \* the arguments and the result of the last lookup
    first_result,    \* per function and key, the value the first resolved call returned
    \* ---- the name resolvers (SpecResolve)
    r_fn,            \* the resolver that was called
    r_name,          \* the name (or version) it was asked to resolve
    srv_labels,      \* the names (versions) of the server's resources, in listing order
    srv_partial,     \* which of them the server's name filter surfaces for r_name
    r_pc,            \* "start", "fallback" or "done"
    r_tries,         \* the attempt of the resolver's own retry decorator
    r_inner_tries,   \* the attempt of the decorated helper it calls
    r_calls,         \* the requests sent so far
    r_reply,         \* the status of the last reply (0: none, or the transport raised)
    r_result,        \* what the call returned or raised
    \* ---- the GitHub workflow extractors (SpecWorkflow)
    wf_fn,           \* the extractor that was called
    wf_lines,        \* the lines of the description (release notes) and what they stand for
    wf_text,         \* project["Description"] or release["ReleaseNotes"]: None or a str
    wf_builds,       \* release["BuildInformation"]
    wf_desc,         \* what the release notes extractor returned, if it was called
    wf_result,       \* what the extractor returned
    \* ---- run_published_runbook_fuzzy, create_release_fuzzy, deploy_release_fuzzy (SpecRunbook)
    rb_fn,           \* the function that was called
    rb_pc,           \* the statement it is at
    rb_channel_name, \* channel_name: None, "" or a name
    rb_packages,     \* the packages of the release template still to be looked up
    rb_outcomes,     \* for each entry of rb_calls, whether it returned or raised
    rb_tenant_name,  \* tenant_name: None, "" or a name
    rb_runbook,      \* runbook, once get_runbook_fuzzy has returned it
    rb_calls,        \* the lookups and the POST made so far
    rb_log_query,    \* whether a log_query callback was passed
    rb_logged,       \* whether log_query was called
    rb_result,       \* what the call returned or raised
    \* ---- get_task_details_async, get_release_async and sem (SpecAsync)
    sem_value,       \* the permits sem has left
    as_started,      \* how many calls were made so far
    as_waiting,      \* per async function, the calls suspended in sem's acquire
    as_inflight,     \* per function, the calls whose request is in flight
    as_done,         \* how many calls have returned or raised
    as_last,         \* the function, the reply status and the result of the call that ended last
    \* ---- two threads in the cached lookups (SpecCacheRace)
    th_call,         \* per thread, the cached function and the key it was called with
    th_pc,           \* per thread, the statement of the cached function it is at
    th_outcome,      \* per thread, what its call of the underlying resolver ended with
    th_result,       \* per thread, what the cached function returned or raised
    last_written,    \* per function and key, the value stored last
    \* ---- get_runbook_deployment_logs (SpecRunbookLogs)
    rl_pc,               \* the statement get_runbook_deployment_logs is at
    rl_environment_name, \* environment_name: None, "" or a name
    rl_tenant_name,      \* tenant_name: None, "" or a name
    rl_environment,      \* environment: None or the resource found
    rl_tenant,           \* tenant: None or the resource found
    rl_query,            \* the environment and tenant entries of query, once it is built
    rl_runs,             \* runs, once the task list has returned
    rl_calls,            \* the remote calls made so far
    rl_outcomes,         \* for each of them, whether it returned or raised
    rl_result            \* what the call returned or raised

responseVars == <<response, handled>>
pagerVars == <<batches, skip, batch, idx, gen_pc, requests, yielded, attempts, received,
               gen_error, consumer, caller, firsts>>
logVars == <<activity_logs, sanitized_steps, categories, include_name, log_pc, rendered>>
cacheVars == <<environment_cache, tenant_cache, channel_cache, n_calls, last_call,
               first_result>>
resolveVars == <<r_fn, r_name, srv_labels, srv_partial, r_pc, r_tries, r_inner_tries,
                 r_calls, r_reply, r_result>>
workflowVars == <<wf_fn, wf_lines, wf_text, wf_builds, wf_desc, wf_result>>
runbookVars == <<rb_fn, rb_channel_name, rb_packages, rb_outcomes, rb_pc, rb_tenant_name, rb_runbook, rb_calls, rb_log_query, rb_logged,
                 rb_result>>
asyncVars == <<sem_value, as_started, as_waiting, as_inflight, as_done, as_last>>
raceVars == <<th_call, th_pc, th_outcome, th_result, last_written>>
runbookLogsVars == <<rl_pc, rl_environment_name, rl_tenant_name, rl_environment, rl_tenant,
                     rl_query, rl_runs, rl_calls, rl_outcomes, rl_result>>
vars == <<responseVars, pagerVars, logVars, cacheVars, resolveVars, workflowVars, runbookVars, asyncVars, raceVars, runbookLogsVars>>

\* None, where a Python variable holds either None or an object.
None == [kind |-> "None"]

\* A call that has not finished yet.
Pending == [kind |-> "pending"]

Min(a, b) == IF a < b THEN a ELSE b

(***************************************************************************)
(* Exceptions and results.  A call either returns a value or raises.       *)
(***************************************************************************)
Return(v) == [kind |-> "return", value |-> v]
Raise(exc, args) == [kind |-> "raise", exc |-> exc, args |-> args]

(***************************************************************************)
(* handle_response                                                         *)
(***************************************************************************)
\* "Request failed with "
RequestFailedPrefix ==
    <<"R", "e", "q", "u", "e", "s", "t", " ", "f", "a", "i", "l", "e", "d",
      " ", "w", "i", "t", "h", " ">>

\* A variant that lets a 401 through to the generic failure branch.
handle_response_no_auth_branch(resp) ==
    IF resp.status # 200 /\ resp.status # 201
    THEN Raise("OctopusRequestFailed", RequestFailedPrefix \o resp.data)
    ELSE Return(resp)

handle_response(resp) ==
    IF resp.status = 401
    THEN Raise("OctopusApiKeyInvalid", <<>>)
    ELSE IF resp.status # 200 /\ resp.status # 201
         THEN Raise("OctopusRequestFailed", RequestFailedPrefix \o resp.data)
         ELSE Return(resp)

\* The status codes and bodies a transport may answer with.
Statuses == 100 .. 599
Bodies == { <<>>, <<"{", "}">>, <<"o", "o", "p", "s">> }

IdleResponse == response = None /\ handled = Pending

InitResponse ==
    /\ response \in [status : Statuses, data : Bodies]
    /\ handled = Pending

HandleResponse ==
    /\ handled = Pending
    /\ handled' = handle_response(response)
    /\ UNCHANGED response

\* The caller issues its next request and gets some other response.
NextResponse ==
    /\ handled # Pending
    /\ response' \in [status : {200, 201, 401, 404, 500}, data : Bodies]
    /\ handled' = Pending

(***************************************************************************)
(* *_generator: lazy pagination over *_batch                               *)
(***************************************************************************)
\* take = 30 in every generator
Take == 30

\* How many page requests the listing endpoint answers with a scripted batch;
\* every later request is answered with the empty batch.
MaxPages == 4

\* The same for the generators that are asked for their first item only.
MaxFirstPages == 2

\* The batch sizes the endpoint may answer with: empty, partial, full, and
\* (an endpoint that ignores take) one more than asked for.
BatchSizes == {0, 17, Take, Take + 1}

RECURSIVE SeqsUpTo(_, _)
SeqsUpTo(S, n) ==
    IF n = 0 THEN { <<>> }
    ELSE LET shorter == SeqsUpTo(S, n - 1)
         IN shorter \cup { Append(s, x) : s \in { t \in shorter : Len(t) = n - 1 }, x \in S }

\* get_projects_batch(skip, take, ...): the Items of the k-th page request.
\* Item i of the listing is the number i, so a batch is skip+1 .. skip+size.
get_projects_batch(k, sk) ==
    LET size == IF k <= Len(batches) THEN batches[k] ELSE 0
    IN [i \in 1 .. size |-> sk + i]

(***************************************************************************)
(* Strings                                                                 *)
(***************************************************************************)
UpperChars ==
    <<"A", "B", "C", "D", "E", "F", "G", "H", "I", "J", "K", "L", "M", "N",
      "O", "P", "Q", "R", "S", "T", "U", "V", "W", "X", "Y", "Z">>
LowerChars ==
    <<"a", "b", "c", "d", "e", "f", "g", "h", "i", "j", "k", "l", "m", "n",
      "o", "p", "q", "r", "s", "t", "u", "v", "w", "x", "y", "z">>
DigitChars == <<"0", "1", "2", "3", "4", "5", "6", "7", "8", "9">>

Range(s) == { s[i] : i \in DOMAIN s }

\* The position of character c in sequence cs, 0 when it is not there.
IndexOf(c, cs) ==
    IF c \in Range(cs) THEN CHOOSE i \in DOMAIN cs : cs[i] = c ELSE 0

LowerChar(c) == IF c \in Range(UpperChars) THEN LowerChars[IndexOf(c, UpperChars)] ELSE c

\* str.lower()
Lower(s) == [i \in DOMAIN s |-> LowerChar(s[i])]

IsSpace(c) == c \in {" ", "\t", "\n"}

RECURSIVE LStrip(_)
LStrip(s) == IF s # <<>> /\ IsSpace(Head(s)) THEN LStrip(Tail(s)) ELSE s

RECURSIVE RStrip(_)
RStrip(s) ==
    IF s # <<>> /\ IsSpace(s[Len(s)]) THEN RStrip(SubSeq(s, 1, Len(s) - 1)) ELSE s

\* str.strip()
Strip(s) == RStrip(LStrip(s))

\* str.startswith(prefix)
StartsWith(s, prefix) ==
    Len(s) >= Len(prefix) /\ SubSeq(s, 1, Len(prefix)) = prefix

RECURSIVE Join(_, _)
\* sep.join(parts)
Join(parts, sep) ==
    IF parts = <<>> THEN <<>>
    ELSE IF Len(parts) = 1 THEN parts[1]
    ELSE parts[1] \o sep \o Join(Tail(parts), sep)

(***************************************************************************)
(* get_logs, filter_logs, activity_logs_to_string                          *)
(***************************************************************************)
\* step_name_match_ratio = 80
step_name_match_ratio == 80

\* "Step "
StepPrefix == <<"S", "t", "e", "p", " ">>

\* domain.converters.string_to_int: the integer a string of decimal digits
\* denotes, None for any other string.
RECURSIVE DigitsValue(_)
DigitsValue(s) ==
    IF s = <<>> THEN 0
    ELSE 10 * DigitsValue(SubSeq(s, 1, Len(s) - 1)) + (IndexOf(s[Len(s)], DigitChars) - 1)

string_to_int(s) ==
    IF s # <<>> /\ \A i \in DOMAIN s : s[i] \in Range(DigitChars)
    THEN [kind |-> "int", value |-> DigitsValue(s)]
    ELSE None

\* Python truthiness of what string_to_int returns: None and 0 are false.
IntTruthy(v) == v.kind = "int" /\ v.value # 0

\* domain.sanitizers.normalize_log_step_name: case-folded, punctuation removed.
IsPunctuation(c) ==
    c \in {":", ";", ",", ".", "-", "_", "!", "?", "(", ")", "[", "]", "'", "#", "/"}

RECURSIVE DropPunctuation(_)
DropPunctuation(s) ==
    IF s = <<>> THEN <<>>
    ELSE IF IsPunctuation(Head(s)) THEN DropPunctuation(Tail(s))
    ELSE <<Head(s)>> \o DropPunctuation(Tail(s))

normalize_log_step_name(name) == DropPunctuation(Lower(name))

\* One row of the longest-common-subsequence table: prev is the row of the
\* previous character of a, cur the part of this row computed so far; entry
\* j + 1 of a row is the value for the first j characters of b.
RECURSIVE LcsRow(_, _, _, _)
LcsRow(prev, c, b, cur) ==
    LET j == Len(cur)
    IN IF j > Len(b) THEN cur
       ELSE LET v == IF c = b[j]
                     THEN prev[j] + 1
                     ELSE IF prev[j + 1] >= cur[j] THEN prev[j + 1] ELSE cur[j]
            IN LcsRow(prev, c, b, Append(cur, v))

RECURSIVE LcsRows(_, _, _, _)
LcsRows(a, b, i, prev) ==
    IF i > Len(a) THEN prev[Len(b) + 1]
    ELSE LcsRows(a, b, i + 1, LcsRow(prev, a[i], b, <<0>>))

\* The length of the longest common subsequence of a and b.
Lcs(a, b) == LcsRows(a, b, 1, [j \in 1 .. Len(b) + 1 |-> 0])

\* fuzzywuzzy.fuzz.ratio: 100 for equal strings, 0 when one is empty, else
\* 100 * 2 * matches / (len(a) + len(b)), rounded.
fuzz_ratio(a, b) ==
    IF a = b THEN 100
    ELSE IF a = <<>> \/ b = <<>> THEN 0
    ELSE LET t == Len(a) + Len(b)
         IN (2 * 200 * Lcs(a, b) + t) \div (2 * t)

\* filter_logs(log_item, steps)
filter_logs(log_item, steps) ==
    IF steps = <<>> THEN TRUE
    ELSE LET step_ints == SelectSeq(steps, LAMBDA step : IntTruthy(string_to_int(step)))
             found_index ==
                 /\ step_ints # <<>>
                 /\ \E i \in DOMAIN step_ints :
                       StartsWith(log_item.Name, StepPrefix \o step_ints[i])
             found_name ==
                 \E i \in DOMAIN steps :
                    /\ steps[i] # <<>>
                    /\ fuzz_ratio(normalize_log_step_name(steps[i]),
                                  normalize_log_step_name(log_item.Name))
                          >= step_name_match_ratio
         IN ~(~found_index /\ ~found_name)

\* "No logs found (status: "
NoLogsPrefix ==
    <<"N", "o", " ", "l", "o", "g", "s", " ", "f", "o", "u", "n", "d", " ",
      "(", "s", "t", "a", "t", "u", "s", ":", " ">>

\* f"No logs found (status: {log_item['Status']})."
NoLogsFound(status) == NoLogsPrefix \o status \o <<")", ".">>

\* A variant that reports an empty node at any depth.
is_empty_root_any_depth(log_item, depth) ==
    Len(log_item.LogElements) = 0 /\ Len(log_item.Children) = 0

\* depth == 0 and len(log_item["LogElements"]) == 0 and len(log_item["Children"]) == 0
is_empty_root(log_item, depth) ==
    depth = 0 /\ Len(log_item.LogElements) = 0 /\ Len(log_item.Children) = 0

\* A variant that tests the step filter at every depth.
stops_at_any_depth(log_item, depth, steps) == ~filter_logs(log_item, steps)

\* A variant that tests the step filter at every depth below the root.
stops_at_below_root(log_item, depth, steps) == depth >= 1 /\ ~filter_logs(log_item, steps)

\* depth == 1 and not filter_logs(log_item, steps)
stops_at(log_item, depth, steps) == depth = 1 /\ ~filter_logs(log_item, steps)

\* A variant that lets every line through.
filtered_logs_any_category(log_item, cats) == log_item.LogElements

\* filter(lambda x: x["Category"] in categories, log_item["LogElements"]) if categories
\* else log_item["LogElements"]
filtered_logs(log_item, cats) ==
    IF cats # {}
    THEN SelectSeq(log_item.LogElements, LAMBDA x : x.Category \in cats)
    ELSE log_item.LogElements

RECURSIVE get_logs(_, _, _, _, _)
RECURSIVE children_logs(_, _, _, _, _)
RECURSIVE children_logs_last_first(_, _, _, _, _)

\* A variant that walks the children from the last to the first.
children_logs_last_first(children, depth, steps, cats, incl) ==
    IF children = <<>> THEN <<>>
    ELSE children_logs_last_first(Tail(children), depth, steps, cats, incl)
            \o get_logs(Head(children), depth + 1, steps, cats, incl)

\* for child in log_item["Children"]: logs.extend(get_logs(child, depth + 1, ...))
children_logs(children, depth, steps, cats, incl) ==
    IF children = <<>> THEN <<>>
    ELSE get_logs(Head(children), depth + 1, steps, cats, incl)
            \o children_logs(Tail(children), depth, steps, cats, incl)

\* get_logs(log_item, depth, steps, categories, include_name); an absent
\* (None) steps list is the empty sequence and absent categories the empty
\* set, which the code treats alike.
get_logs(log_item, depth, steps, cats, incl) ==
    IF is_empty_root(log_item, depth)
    THEN IF cats = {} THEN << NoLogsFound(log_item.Status) >> ELSE <<>>
    ELSE LET own == (IF incl THEN << log_item.Name >> ELSE <<>>)
                       \o [i \in DOMAIN filtered_logs(log_item, cats) |->
                              filtered_logs(log_item, cats)[i].MessageText]
         IN IF stops_at(log_item, depth, steps)
            THEN own
            ELSE own \o children_logs(log_item.Children, depth, steps, cats, incl)

RECURSIVE flatten_list(_)
\* domain.sanitizers.flatten_list: the concatenation of the lists
flatten_list(lists) ==
    IF lists = <<>> THEN <<>> ELSE Head(lists) \o flatten_list(Tail(lists))

\* activity_logs_to_string(activity_logs, sanitized_steps, categories, join_string, include_name):
\* the flattened list of lines and the joined string
activity_logs_to_string(logs_in, steps, cats, join_string, incl) ==
    IF logs_in = <<>>
    THEN [lines |-> <<>>, text |-> <<>>]
    ELSE LET lines == flatten_list([i \in DOMAIN logs_in |->
                                       get_logs(logs_in[i], 0, steps, cats, incl)])
         IN [lines |-> lines, text |-> Join(lines, join_string)]

(***************************************************************************)
(* The activity log trees the task-detail endpoint may answer with         *)
(***************************************************************************)
\* How many top-level steps (depth-1 nodes) a task has at most.
MaxSteps == 2

Str_Task == <<"T", "a", "s", "k">>
Str_Success == <<"S", "u", "c", "c", "e", "s", "s">>
Str_Failed == <<"F", "a", "i", "l", "e", "d">>
Step1Deploy == <<"S", "t", "e", "p", " ", "1", " ", "D", "e", "p", "l", "o", "y">>
Step10Clean == <<"S", "t", "e", "p", " ", "1", "0", " ", "C", "l", "e", "a", "n">>
Step2Notify == <<"S", "t", "e", "p", " ", "2", " ", "N", "o", "t", "i", "f", "y">>
Step0Init == <<"S", "t", "e", "p", " ", "0", " ", "I", "n", "i", "t">>
Step3Verify == <<"S", "t", "e", "p", " ", "3", " ", "V", "e", "r", "i", "f", "y">>

\* The two message lines of the node at `path` (a string of child indexes).
TwoLines(path) ==
    << [Category |-> "Info", MessageText |-> <<"i", "n", "f", "o", " ">> \o path],
       [Category |-> "Error", MessageText |-> <<"e", "r", "r", " ">> \o path] >>

LogNode(name, status, elements, children) ==
    [Name |-> name, Status |-> status, LogElements |-> elements, Children |-> children]

\* The name of the action or sub-step at `path`.
ActionName(path) == <<"A", "c", "t", " ">> \o path

\* The shapes of a top-level step at `path`: nothing at all; lines only; an
\* empty child; a child with a grandchild; two children, one with a grandchild.
StepShapes(path) ==
    LET p1 == path \o <<"1">>
        p2 == path \o <<"2">>
        leaf(p) == LogNode(ActionName(p), Str_Success, TwoLines(p), <<>>)
        chain(p) == LogNode(ActionName(p), Str_Success, TwoLines(p), << leaf(p \o <<"1">>) >>)
    IN { [LogElements |-> <<>>, Children |-> <<>>],
         [LogElements |-> TwoLines(path), Children |-> <<>>],
         [LogElements |-> TwoLines(path),
          Children |-> << LogNode(ActionName(p1), Str_Failed, <<>>, <<>>) >>],
         [LogElements |-> TwoLines(path), Children |-> << chain(p1) >>],
         [LogElements |-> TwoLines(path), Children |-> << leaf(p1), chain(p2) >>] }

\* The names the n-th top-level step may carry.
StepNames(n) ==
    IF n = 1 THEN {Step1Deploy, Step10Clean}
    ELSE IF n = 2 THEN {Step2Notify, Step0Init}
    ELSE {Step3Verify}

StepNodes(n) ==
    { LogNode(name, Str_Success, sh.LogElements, sh.Children) :
        name \in StepNames(n), sh \in StepShapes(<<DigitChars[n + 1]>>) }

RECURSIVE StepSeqs(_)
StepSeqs(n) ==
    IF n = 0 THEN { <<>> }
    ELSE { Append(s, c) : s \in StepSeqs(n - 1), c \in StepNodes(n) }

RootNodes ==
    { LogNode(Str_Task, status, elements, children) :
        status \in {Str_Success, Str_Failed},
        elements \in { <<>>, TwoLines(<<"0">>) },
        children \in UNION { StepSeqs(n) : n \in 0 .. MaxSteps } }

\* The step filters a caller may pass (none, indexes, names).
StepFilters ==
    { <<>>,
      << <<"1">> >>,
      << <<"2">> >>,
      << <<"0">> >>,
      << <<"S", "t", "e", "p", " ", "2", ":", " ", "N", "o", "t", "i", "f", "y">> >>,
      << <<"1">>, <<"i", "n", "i", "t">> >> }

CategoryFilters == { {}, {"Error"} }

IdleLogs ==
    /\ activity_logs = <<>> /\ sanitized_steps = <<>> /\ categories = {}
    /\ include_name = TRUE /\ log_pc = "idle" /\ rendered = Pending

InitLogs ==
    /\ activity_logs \in { <<>> } \cup { <<r>> : r \in RootNodes }
    /\ sanitized_steps \in StepFilters
    /\ categories \in CategoryFilters
    /\ include_name \in BOOLEAN
    /\ log_pc = "call"
    /\ rendered = Pending

\* activity_logs_to_string(activity_logs, sanitized_steps, categories, "\n", include_name)
RenderLogs ==
    /\ log_pc = "call"
    /\ rendered' = activity_logs_to_string(activity_logs, sanitized_steps, categories, <<"\n">>,
                                           include_name)
    /\ log_pc' = "done"
    /\ UNCHANGED <<activity_logs, sanitized_steps, categories, include_name>>

(***************************************************************************)
(* get_environment_fuzzy_cached, get_tenant_fuzzy_cached,                  *)
(* get_channel_cached and the three module-level caches                    *)
(***************************************************************************)
\* How many cached lookups a process makes in the model.
MaxCalls == 3

\* {}
EmptyDict == <<>>

\* d[k] = v
DictSet(d, k, v) == [x \in DOMAIN d \cup {k} |-> IF x = k THEN v ELSE d[x]]

\* not d.get(k), for a dict whose values are dicts: missing or empty
DictMissing(d, k) == k \notin DOMAIN d \/ DOMAIN d[k] = {}

\* A variant that keeps one name table per server and forgets the space.
cache_prepare_one_space(cache, octopus_url, space_id) ==
    LET c1 == IF DictMissing(cache, octopus_url)
              THEN DictSet(cache, octopus_url, EmptyDict) ELSE cache
        only == IF DOMAIN c1[octopus_url] = {} THEN EmptyDict
                ELSE c1[octopus_url][CHOOSE s \in DOMAIN c1[octopus_url] : TRUE]
    IN DictSet(c1, octopus_url, DictSet(c1[octopus_url], space_id, only))

\* if not cache.get(octopus_url): cache[octopus_url] = {}
\* if not cache[octopus_url].get(space_id): cache[octopus_url][space_id] = {}
cache_prepare(cache, octopus_url, space_id) ==
    LET c1 == IF DictMissing(cache, octopus_url)
              THEN DictSet(cache, octopus_url, EmptyDict) ELSE cache
    IN IF DictMissing(c1[octopus_url], space_id)
       THEN DictSet(c1, octopus_url, DictSet(c1[octopus_url], space_id, EmptyDict))
       ELSE c1

\* cache[octopus_url][space_id].get(name): a stored resource is a non-empty
\* dict, so the entry is found exactly when the name is a key
cache_hit(cache, octopus_url, space_id, name) ==
    name \in DOMAIN cache[octopus_url][space_id]

\* A variant that starts a new name table for the space on every store.
cache_store_new_table(cache, octopus_url, space_id, name, value) ==
    DictSet(cache, octopus_url,
            DictSet(cache[octopus_url], space_id, DictSet(EmptyDict, name, value)))

\* cache[octopus_url][space_id][name] = value
cache_store(cache, octopus_url, space_id, name, value) ==
    DictSet(cache, octopus_url,
            DictSet(cache[octopus_url], space_id,
                    DictSet(cache[octopus_url][space_id], name, value)))

\* A variant that keeps a placeholder under the name when the resolver raised.
cache_assign_keeps_failure(cache, octopus_url, space_id, name, outcome) ==
    cache_store(cache, octopus_url, space_id, name,
                IF outcome.kind = "return" THEN outcome.value
                ELSE [Id |-> 0, Name |-> name])

\* cache[octopus_url][space_id][name] = resolver(space_id, name, api_key, octopus_url):
\* the right-hand side is evaluated first, so nothing is assigned when it raises
cache_assign(cache, octopus_url, space_id, name, outcome) ==
    IF outcome.kind = "return"
    THEN cache_store(cache, octopus_url, space_id, name, outcome.value)
    ELSE cache

CachedFunctions ==
    {"get_environment_fuzzy_cached", "get_tenant_fuzzy_cached", "get_channel_cached"}

\* The servers, spaces, names and API keys the lookups are made with.  The
\* keys differ from the first one in exactly one component.
CacheKeys ==
    { <<"https://a.octopus.app", "Spaces-1", "Dev">>,
      <<"https://b.octopus.app", "Spaces-1", "Dev">>,
      <<"https://a.octopus.app", "Spaces-2", "Dev">>,
      <<"https://a.octopus.app", "Spaces-1", "Test">> }
ApiKeys == {"API-VALID", "API-REVOKED"}

\* What the underlying resolver (get_environment_fuzzy, get_tenant_fuzzy,
\* get_channel) can end with at the time of the call.  The server answers 401
\* to a revoked key; to a valid key it answers with whatever resource it holds
\* under that name now (its id changes when the resource is re-created), with
\* no match, or with a failure status.
ResolverOutcomes(fn, name, api_key) ==
    IF api_key = "API-REVOKED"
    THEN { Raise("OctopusApiKeyInvalid", <<>>) }
    ELSE { Return([Id |-> i, Name |-> name]) : i \in 1 .. 2 }
           \cup { Raise("OctopusRequestFailed", <<>>) }
           \cup (IF fn = "get_channel_cached" THEN {}
                 ELSE { Raise("ResourceNotFound", <<name>>) })

CacheOf(fn) ==
    IF fn = "get_environment_fuzzy_cached" THEN environment_cache
    ELSE IF fn = "get_tenant_fuzzy_cached" THEN tenant_cache
    ELSE channel_cache

IdleCache ==
    /\ environment_cache = EmptyDict /\ tenant_cache = EmptyDict
    /\ channel_cache = EmptyDict
    /\ n_calls = 0 /\ last_call = None /\ first_result = EmptyDict

\* channel_cache = {}, tenant_cache = {}, environment_cache = {}
InitCache ==
    /\ environment_cache = EmptyDict
    /\ tenant_cache = EmptyDict
    /\ channel_cache = EmptyDict
    /\ n_calls = 0
    /\ last_call = None
    /\ first_result = EmptyDict

\* One call of get_environment_fuzzy_cached / get_tenant_fuzzy_cached /
\* get_channel_cached(space_id, name, api_key, octopus_url), start to end.
CachedLookup(fn, octopus_url, space_id, name, api_key) ==
    LET prepared == cache_prepare(CacheOf(fn), octopus_url, space_id)
        key == <<fn, octopus_url, space_id, name>>
        finish(cache, result, ran) ==
            /\ environment_cache' =
                  IF fn = "get_environment_fuzzy_cached" THEN cache ELSE environment_cache
            /\ tenant_cache' =
                  IF fn = "get_tenant_fuzzy_cached" THEN cache ELSE tenant_cache
            /\ channel_cache' =
                  IF fn = "get_channel_cached" THEN cache ELSE channel_cache
            /\ last_call' = [kind |-> "call", fn |-> fn, octopus_url |-> octopus_url,
                             space_id |-> space_id, name |-> name, api_key |-> api_key,
                             result |-> result, resolver_ran |-> ran,
                             seen_before |-> key \in DOMAIN first_result]
            /\ first_result' =
                  IF result.kind = "return" /\ key \notin DOMAIN first_result
                  THEN DictSet(first_result, key, result.value)
                  ELSE first_result
    IN /\ n_calls < MaxCalls
       /\ n_calls' = n_calls + 1
       /\ IF cache_hit(prepared, octopus_url, space_id, name)
          THEN finish(prepared, Return(prepared[octopus_url][space_id][name]), FALSE)
          ELSE \E outcome \in ResolverOutcomes(fn, name, api_key) :
                  LET stored == cache_assign(prepared, octopus_url, space_id, name, outcome)
                  IN IF outcome.kind = "return"
                     THEN finish(stored, Return(stored[octopus_url][space_id][name]), TRUE)
                     ELSE finish(stored, outcome, TRUE)

CachedLookupAny ==
    \E fn \in CachedFunctions, k \in CacheKeys, api_key \in ApiKeys :
        CachedLookup(fn, k[1], k[2], k[3], api_key)

(***************************************************************************)
(* The name resolvers: get_space_id_and_name_from_name, get_project,       *)
(* get_environment_fuzzy, get_tenant_fuzzy, get_project_fuzzy,             *)
(* get_runbook_fuzzy, get_channel_by_name, get_release_fuzzy               *)
(***************************************************************************)
Tries == 3
MaxItems == 3
ServerDefaultTake == 2

Str_Dev == <<"D", "e", "v">>
Str_dev_sp == <<"d", "e", "v", " ">>
Str_sp_DEV == <<" ", "D", "E", "V">>
Str_Prod == <<"P", "r", "o", "d">>
Str_Qa == <<"Q", "a">>
Str_Spaces == <<"S", "p", "a", "c", "e", "s", "-">>
Str_Projects == <<"P", "r", "o", "j", "e", "c", "t", "s", "-">>
project_id == <<"P", "r", "o", "j", "e", "c", "t", "s", "-", "7">>
ErrorBody == <<"o", "o", "p", "s">>

ResolverFns ==
    {"get_space_id_and_name_from_name", "get_project", "get_environment_fuzzy",
     "get_tenant_fuzzy", "get_project_fuzzy", "get_runbook_fuzzy",
     "get_channel_by_name", "get_release_fuzzy"}

TwoTierFns ==
    {"get_project", "get_environment_fuzzy", "get_tenant_fuzzy", "get_project_fuzzy",
     "get_runbook_fuzzy"}

\* the first argument of the ResourceNotFound each resolver raises
Kind(fn) ==
    CASE fn = "get_project" -> "Project"
      [] fn = "get_environment_fuzzy" -> "Environment"
      [] fn = "get_tenant_fuzzy" -> "Tenant"
      [] fn = "get_project_fuzzy" -> "Project"
      [] fn = "get_runbook_fuzzy" -> "Runbook"
      [] fn = "get_channel_by_name" -> "Channel"
      [] fn = "get_release_fuzzy" -> "Release"
      [] OTHER -> "Space"

\* the prefix of the Ids the server gives to the resources a resolver looks up
IdPrefix(fn) ==
    CASE fn = "get_space_id_and_name_from_name" -> Str_Spaces
      [] fn \in {"get_project", "get_project_fuzzy"} -> Str_Projects
      [] fn = "get_environment_fuzzy" ->
            <<"E", "n", "v", "i", "r", "o", "n", "m", "e", "n", "t", "s", "-">>
      [] fn = "get_tenant_fuzzy" -> <<"T", "e", "n", "a", "n", "t", "s", "-">>
      [] fn = "get_runbook_fuzzy" -> <<"R", "u", "n", "b", "o", "o", "k", "s", "-">>
      [] fn = "get_channel_by_name" -> <<"C", "h", "a", "n", "n", "e", "l", "s", "-">>
      [] OTHER -> <<"R", "e", "l", "e", "a", "s", "e", "s", "-">>

\* the i-th resource of the listing a resolver reads
Resource(fn, i) ==
    IF fn = "get_release_fuzzy"
    THEN [Id |-> IdPrefix(fn) \o <<DigitChars[i + 1]>>, Version |-> srv_labels[i]]
    ELSE [Id |-> IdPrefix(fn) \o <<DigitChars[i + 1]>>, Name |-> srv_labels[i]]

ServerItems(fn) == [i \in DOMAIN srv_labels |-> Resource(fn, i)]

\* the elements of a list at the positions in S, in order
RECURSIVE SubseqAt(_, _)
SubseqAt(items, S) ==
    IF items = <<>> THEN <<>>
    ELSE LET n == Len(items)
             front == SubseqAt(SubSeq(items, 1, n - 1), S)
         IN IF n \in S THEN Append(front, items[n]) ELSE front

\* the requests the resolvers build with build_url
GetRequest(id) == [op |-> "get", id |-> id, filter |-> "none", take |-> "none"]
ListRequest(filter, take) == [op |-> "list", id |-> <<>>, filter |-> filter, take |-> take]

\* the page a listing endpoint answers a request with: the resources its
\* filter surfaces, all of them for take=TAKE_ALL and the server's default
\* page otherwise
ServerList(fn, req) ==
    LET all == ServerItems(fn)
        filtered == IF req.filter = "none" THEN all ELSE SubseqAt(all, srv_partial)
    IN  IF req.take = "TAKE_ALL" THEN filtered
        ELSE SubSeq(filtered, 1, Min(Len(filtered), ServerDefaultTake))

OkResponse(json) == [kind |-> "response", status |-> 200, data |-> <<>>, json |-> json]
ErrorResponse(status) ==
    [kind |-> "response", status |-> status, data |-> ErrorBody, json |-> None]

\* the answer of the server to a request, when the request reaches it
ServerAnswer(fn, req) ==
    IF req.op = "list" THEN OkResponse([Items |-> ServerList(fn, req)])
    ELSE LET hits == {i \in DOMAIN srv_labels : Resource(fn, i).Id = req.id}
         IN  IF hits = {} THEN ErrorResponse(404)
             ELSE OkResponse(Resource(fn, CHOOSE i \in hits : TRUE))

\* what http.request can do with a request: the server's answer, a rejected
\* key, a server error, or an exception of the transport
Replies(fn, req) ==
    {ServerAnswer(fn, req), ErrorResponse(401), ErrorResponse(500),
     [kind |-> "HTTPError", status |-> 0, data |-> <<>>, json |-> None]}

\* retry(HTTPError, ...) retries the exceptions that are HTTPErrors
IsHTTPError(exc) == exc \in {"HTTPError", "OctopusRequestFailed"}

\* handle_response(lambda: http.request(...)) for one reply of the transport
Outcome(reply) ==
    IF reply.kind = "HTTPError" THEN Raise("HTTPError", <<>>)
    ELSE handle_response(reply)

ExactMatches(items, name) == SelectSeq(items, LAMBDA s : s.Name = name)
LenientMatches(items, name) ==
    SelectSeq(items, LAMBDA s : Strip(Lower(s.Name)) = Strip(Lower(name)))

\* get_item_fuzzy of domain.sanitizers.sanitized_list: the one exact match,
\* else the one match ignoring case and surrounding whitespace, else None
get_item_fuzzy(items, name) ==
    IF Len(ExactMatches(items, name)) = 1 THEN ExactMatches(items, name)[1]
    ELSE IF Len(LenientMatches(items, name)) = 1 THEN LenientMatches(items, name)[1]
    ELSE None

\* "if len(filtered_spaces) == 1:"
exactly_one(matches) == Len(matches) = 1

\* the matching of get_space_id_and_name_from_name over json["Items"]
filtered_spaces(items, space_name) ==
    IF exactly_one(ExactMatches(items, space_name))
    THEN ExactMatches(items, space_name)[1]
    ELSE IF exactly_one(LenientMatches(items, space_name))
         THEN LenientMatches(items, space_name)[1]
    ELSE None

\* the list comprehension of get_release_fuzzy
matching_releases(items, release_version) ==
    SelectSeq(items, LAMBDA release : release.Version = release_version)

has_early_exit_nowhere(fn, name) == FALSE
\* "Early exit if an ID was supplied": only these two resolvers have one
has_early_exit(fn, name) ==
    \/ fn = "get_space_id_and_name_from_name" /\ StartsWith(name, Str_Spaces)
    \/ fn = "get_project" /\ StartsWith(name, Str_Projects)

needs_fallback_always(item) == TRUE
\* "if project is None:" after the partial name lookup
needs_fallback(item) == item = None

\* the query of the second request of a two-tier resolver
fallback_take(fn) == IF fn = "get_project" THEN "TAKE_ALL" ELSE "default"

\* the arguments of the ResourceNotFound (SpaceNotFound) a resolver raises
not_found_payload(fn, name) ==
    CASE fn = "get_space_id_and_name_from_name" -> <<name>>
      [] fn = "get_channel_by_name" -> <<"Channel", project_id>>
      [] OTHER -> <<Kind(fn), name>>

NotFound(fn, name) ==
    IF fn = "get_space_id_and_name_from_name"
    THEN Raise("SpaceNotFound", not_found_payload(fn, name))
    ELSE Raise("ResourceNotFound", not_found_payload(fn, name))

\* the call returns or raises for good
Finish(result) ==
    /\ r_pc' = "done"
    /\ r_result' = result
    /\ UNCHANGED <<r_tries, r_inner_tries>>

\* a decorator that would retry whatever the body raised
RaiseOuter_any_exception(raised, decorated) ==
    IF decorated /\ r_tries < Tries
    THEN /\ r_tries' = r_tries + 1
         /\ r_inner_tries' = 1
         /\ r_pc' = "start"
         /\ r_result' = Pending
    ELSE Finish(raised)

\* a retry that would repeat only the request that failed
RaiseOuter_in_place(raised, decorated) ==
    IF decorated /\ IsHTTPError(raised.exc) /\ r_tries < Tries
    THEN /\ r_tries' = r_tries + 1
         /\ r_inner_tries' = 1
         /\ r_result' = Pending
         /\ UNCHANGED r_pc
    ELSE Finish(raised)

\* an exception leaves the resolver's body: its own decorator, if it has one,
\* calls the body again for an HTTPError while attempts are left
RaiseOuter(raised, decorated) ==
    IF decorated /\ IsHTTPError(raised.exc) /\ r_tries < Tries
    THEN /\ r_tries' = r_tries + 1
         /\ r_inner_tries' = 1
         /\ r_pc' = "start"
         /\ r_result' = Pending
    ELSE Finish(raised)

\* an exception leaves the body of a decorated helper (get_space, get_channels)
RaiseInner(raised, decorated) ==
    IF IsHTTPError(raised.exc) /\ r_inner_tries < Tries
    THEN /\ r_inner_tries' = r_inner_tries + 1
         /\ UNCHANGED <<r_tries, r_pc, r_result>>
    ELSE RaiseOuter(raised, decorated)

Send(req, reply) == r_calls' = Append(r_calls, req) /\ r_reply' = reply.status

Labels == {Str_Dev, Str_dev_sp, Str_Qa}
Queries(fn) == {Str_Dev, Str_sp_DEV, Str_Prod, IdPrefix(fn) \o <<"1">>}

IdleResolve ==
    /\ r_fn = "none" /\ r_name = <<>> /\ srv_labels = <<>> /\ srv_partial = {}
    /\ r_pc = "idle" /\ r_tries = 1 /\ r_inner_tries = 1
    /\ r_calls = <<>> /\ r_reply = 0 /\ r_result = Pending

InitResolve ==
    /\ r_fn \in ResolverFns
    /\ r_name \in Queries(r_fn)
    /\ srv_labels \in SeqsUpTo(Labels, MaxItems)
    /\ srv_partial \in SUBSET (DOMAIN srv_labels)
    /\ r_pc = "start" /\ r_tries = 1 /\ r_inner_tries = 1
    /\ r_calls = <<>> /\ r_reply = 0 /\ r_result = Pending

\* get_space_id_and_name_from_name, early exit: get_space(space_name, ...)
SpaceGetById ==
    /\ r_fn = "get_space_id_and_name_from_name" /\ r_pc = "start"
    /\ has_early_exit(r_fn, r_name)
    /\ \E reply \in Replies(r_fn, GetRequest(r_name)) :
         /\ Send(GetRequest(r_name), reply)
         /\ IF Outcome(reply).kind = "raise"
            THEN RaiseInner(Outcome(reply), FALSE)
            ELSE Finish(Return(reply.json))
    /\ UNCHANGED <<r_fn, r_name, srv_labels, srv_partial>>

\* get_space_id_and_name_from_name, the listing with take=TAKE_ALL
SpaceList ==
    /\ r_fn = "get_space_id_and_name_from_name" /\ r_pc = "start"
    /\ ~has_early_exit(r_fn, r_name)
    /\ \E reply \in Replies(r_fn, ListRequest("none", "TAKE_ALL")) :
         /\ Send(ListRequest("none", "TAKE_ALL"), reply)
         /\ IF Outcome(reply).kind = "raise"
            THEN RaiseOuter(Outcome(reply), FALSE)
            ELSE IF filtered_spaces(reply.json.Items, r_name) = None
                 THEN Finish(NotFound(r_fn, r_name))
                 ELSE Finish(Return(filtered_spaces(reply.json.Items, r_name)))
    /\ UNCHANGED <<r_fn, r_name, srv_labels, srv_partial>>

\* get_project, early exit: GET api/{space}/Projects/{project_name}
ProjectGetById ==
    /\ r_fn = "get_project" /\ r_pc = "start"
    /\ has_early_exit(r_fn, r_name)
    /\ \E reply \in Replies(r_fn, GetRequest(r_name)) :
         /\ Send(GetRequest(r_name), reply)
         /\ IF Outcome(reply).kind = "raise"
            THEN RaiseOuter(Outcome(reply), TRUE)
            ELSE Finish(Return(reply.json))
    /\ UNCHANGED <<r_fn, r_name, srv_labels, srv_partial>>

\* the first request of get_project and of the get_*_fuzzy resolvers:
\* the listing with partialname=<name>, then get_item_fuzzy
PartialNameLookup ==
    /\ r_fn \in TwoTierFns /\ r_pc = "start"
    /\ ~has_early_exit(r_fn, r_name)
    /\ \E reply \in Replies(r_fn, ListRequest("partialname", "default")) :
         /\ Send(ListRequest("partialname", "default"), reply)
         /\ IF Outcome(reply).kind = "raise"
            THEN RaiseOuter(Outcome(reply), TRUE)
            ELSE IF needs_fallback(get_item_fuzzy(reply.json.Items, r_name))
                 THEN /\ r_pc' = "fallback"
                      /\ UNCHANGED <<r_tries, r_inner_tries, r_result>>
                 ELSE Finish(Return(get_item_fuzzy(reply.json.Items, r_name)))
    /\ UNCHANGED <<r_fn, r_name, srv_labels, srv_partial>>

\* their second request: the listing without a name filter
FallbackLookup ==
    /\ r_fn \in TwoTierFns /\ r_pc = "fallback"
    /\ \E reply \in Replies(r_fn, ListRequest("none", fallback_take(r_fn))) :
         /\ Send(ListRequest("none", fallback_take(r_fn)), reply)
         /\ IF Outcome(reply).kind = "raise"
            THEN RaiseOuter(Outcome(reply), TRUE)
            ELSE IF get_item_fuzzy(reply.json.Items, r_name) = None
                 THEN RaiseOuter(NotFound(r_fn, r_name), TRUE)
                 ELSE Finish(Return(get_item_fuzzy(reply.json.Items, r_name)))
    /\ UNCHANGED <<r_fn, r_name, srv_labels, srv_partial>>

\* get_channel_by_name: get_channels, then get_item_fuzzy
ChannelByName ==
    /\ r_fn = "get_channel_by_name" /\ r_pc = "start"
    /\ \E reply \in Replies(r_fn, ListRequest("none", "default")) :
         /\ Send(ListRequest("none", "default"), reply)
         /\ IF Outcome(reply).kind = "raise"
            THEN RaiseInner(Outcome(reply), TRUE)
            ELSE IF get_item_fuzzy(reply.json.Items, r_name) = None
                 THEN RaiseOuter(NotFound(r_fn, r_name), TRUE)
                 ELSE Finish(Return(get_item_fuzzy(reply.json.Items, r_name)))
    /\ UNCHANGED <<r_fn, r_name, srv_labels, srv_partial>>

\* get_release_fuzzy: the listing with searchByVersion=<version>
ReleaseFuzzy ==
    /\ r_fn = "get_release_fuzzy" /\ r_pc = "start"
    /\ \E reply \in Replies(r_fn, ListRequest("searchByVersion", "default")) :
         /\ Send(ListRequest("searchByVersion", "default"), reply)
         /\ IF Outcome(reply).kind = "raise"
            THEN RaiseOuter(Outcome(reply), TRUE)
            ELSE IF Len(matching_releases(reply.json.Items, r_name)) = 0
                 THEN RaiseOuter(NotFound(r_fn, r_name), TRUE)
                 ELSE Finish(Return(matching_releases(reply.json.Items, r_name)[1]))
    /\ UNCHANGED <<r_fn, r_name, srv_labels, srv_partial>>

IdlePager ==
    /\ batches = <<>> /\ skip = 0 /\ batch = <<>> /\ idx = 0
    /\ gen_pc = "idle" /\ requests = <<>> /\ yielded = <<>>
    /\ attempts = 0 /\ received = <<>> /\ gen_error = "none" /\ consumer = "idle"
    /\ caller = "none" /\ firsts = <<>>

\* a call of the generator function: skip = 0, take = 30, nothing requested yet
InitPager ==
    /\ batches \in SeqsUpTo(BatchSizes, MaxPages)
    /\ skip = 0
    /\ batch = <<>>
    /\ idx = 0
    /\ gen_pc = "fetch"
    /\ requests = <<>>
    /\ yielded = <<>>
    /\ attempts = 0
    /\ received = <<>>
    /\ gen_error = "none"
    /\ consumer = "pulling"
    /\ caller \in {"for", "first"}
    /\ caller = "first" => Len(batches) <= MaxFirstPages
    /\ firsts = <<>>

\* A variant that stops only on an empty batch.
batch_is_last_when_empty(b) == Len(b) = 0

\* A variant that goes on after a batch of more than take items.
batch_is_last_when_short(b) == Len(b) < Take

\* A variant that goes on only after a batch of more than take items.
batch_is_last_up_to_take(b) == Len(b) <= Take

\* if len(batch_projects) != take: break
batch_is_last(b) == Len(b) # Take

\* A variant that moves the offset by one item.
next_skip_by_one(sk) == sk + 1

\* skip += take
next_skip(sk) == sk + Take

\* A generator that would run ahead of its consumer.
may_run_always == TRUE

\* the body of a generator runs only while the consumer asks for an item:
\* a loop asks until it is left, next(generator, None) asks for one item
may_run ==
    /\ consumer = "pulling"
    /\ caller = "first" => yielded = <<>>

\* the generator is suspended: not started yet, or at the yield of an item
suspended ==
    \/ gen_pc = "fetch" /\ requests = <<>>
    \/ gen_pc = "loop" /\ idx > 1

\* get_space_first_project_runbook_and_environment asks three generators
\* (all runbooks, projects, environments) for their first item
FirstItemGenerators == 3

\* A batch function without the retry decorator.
batch_retry_never(exc, n) == FALSE

\* @retry(HTTPError, tries=3, delay=2) on get_projects_batch
batch_retry(exc, n) == IsHTTPError(exc) /\ n < Tries

\* what http.request can do with the k-th page request
PageReplies(k, sk) ==
    {OkResponse([Items |-> get_projects_batch(k, sk)]), ErrorResponse(401),
     ErrorResponse(500),
     [kind |-> "HTTPError", status |-> 0, data |-> <<>>, json |-> None]}

\* batch_projects = get_projects_batch(skip, take, ...): the call sends its
\* request
GeneratorFetch ==
    /\ gen_pc = "fetch" /\ may_run
    /\ requests' = Append(requests, <<skip, Take>>)
    /\ attempts' = 1
    /\ gen_pc' = "wait"
    /\ UNCHANGED <<batches, skip, batch, idx, yielded, received, gen_error, consumer,
                   caller, firsts>>

\* the request is answered: get_projects_batch returns the Items, or its
\* decorator sends the request again, or the exception leaves the generator
BatchReply ==
    /\ gen_pc = "wait"
    /\ \E reply \in PageReplies(Len(requests), skip) :
         LET out == Outcome(reply)
         IN  IF out.kind = "return"
             THEN /\ batch' = out.value.json.Items
                  /\ received' = Append(received, Len(out.value.json.Items))
                  /\ idx' = 1
                  /\ gen_pc' = "loop"
                  /\ UNCHANGED <<attempts, gen_error>>
             ELSE IF batch_retry(out.exc, attempts)
                  THEN /\ attempts' = attempts + 1
                       /\ UNCHANGED <<batch, received, idx, gen_pc, gen_error>>
                  ELSE /\ gen_pc' = "failed"
                       /\ gen_error' = out.exc
                       /\ UNCHANGED <<batch, received, idx, attempts>>
    /\ UNCHANGED <<batches, skip, requests, yielded, consumer, caller, firsts>>

\* for project in batch_projects: yield project
GeneratorYield ==
    /\ gen_pc = "loop" /\ may_run
    /\ idx <= Len(batch)
    /\ yielded' = Append(yielded, batch[idx])
    /\ idx' = idx + 1
    /\ UNCHANGED <<batches, skip, batch, gen_pc, requests, attempts, received,
                   gen_error, consumer, caller, firsts>>

\* if len(batch_projects) != take: break
GeneratorStop ==
    /\ gen_pc = "loop" /\ may_run
    /\ idx > Len(batch)
    /\ batch_is_last(batch)
    /\ gen_pc' = "done"
    /\ UNCHANGED <<batches, skip, batch, idx, requests, yielded, attempts, received,
                   gen_error, consumer, caller, firsts>>

\* skip += take
GeneratorAdvance ==
    /\ gen_pc = "loop" /\ may_run
    /\ idx > Len(batch)
    /\ ~batch_is_last(batch)
    /\ skip' = next_skip(skip)
    /\ gen_pc' = "fetch"
    /\ UNCHANGED <<batches, batch, idx, requests, yielded, attempts, received,
                   gen_error, consumer, caller, firsts>>

\* the consumer takes no further item: next(generator, None) has returned its
\* one item, or a for loop over the generator was left
ConsumerStops ==
    /\ caller = "for"
    /\ consumer = "pulling" /\ suspended
    /\ consumer' = "stopped"
    /\ UNCHANGED <<batches, skip, batch, idx, gen_pc, requests, yielded, attempts,
                   received, gen_error, caller, firsts>>

\* space_first_... = next(get_..._generator(space_id, api_key, url), None):
\* the generator has yielded its first item, or has ended without one; it is
\* dropped and the next of the three generators is called
TakeFirst ==
    /\ caller = "first" /\ consumer = "pulling"
    /\ \/ gen_pc = "loop" /\ yielded # <<>>
       \/ gen_pc = "done"
    /\ firsts' = Append(firsts, [requests |-> requests, items |-> yielded,
                                 page |-> received[1]])
    /\ IF Len(firsts) + 1 < FirstItemGenerators
       THEN /\ batches' \in SeqsUpTo(BatchSizes, MaxFirstPages)
            /\ skip' = 0 /\ batch' = <<>> /\ idx' = 0 /\ gen_pc' = "fetch"
            /\ requests' = <<>> /\ yielded' = <<>> /\ attempts' = 0
            /\ received' = <<>>
            /\ UNCHANGED <<gen_error, consumer, caller>>
       ELSE /\ consumer' = "stopped"
            /\ UNCHANGED <<batches, skip, batch, idx, gen_pc, requests, yielded,
                           attempts, received, gen_error, caller>>

(***************************************************************************)
(* get_project_github_workflow, get_release_github_workflow_async and the  *)
(* two extractors behind the latter                                        *)
(***************************************************************************)
\* How many lines a description or release notes text has at most, and how
\* many build information entries a release.
MaxLines == 3
MaxBuilds == 2

\* a str where a Python variable holds either None or a str
Some(s) == [kind |-> "str", value |-> s]

RECURSIVE Split(_, _)
\* str.split(sep) for a one-character separator
Split(s, sep) ==
    IF sep \notin Range(s) THEN <<s>>
    ELSE LET i == CHOOSE k \in DOMAIN s : s[k] = sep /\ \A j \in 1 .. k - 1 : s[j] # sep
         IN  <<SubSeq(s, 1, i - 1)>> \o Split(SubSeq(s, i + 1, Len(s)), sep)

\* the keys of the metadata lines, as re.IGNORECASE compares them
Key_run == <<"g", "i", "t", "h", "u", "b", " ", "r", "u", "n">>
Key_id == <<"i", "d", ":">>
Key(field) ==
    CASE field = "owner" -> <<"g", "i", "t", "h", "u", "b", " ", "o", "w", "n", "e", "r", ":">>
      [] field = "repo" -> <<"g", "i", "t", "h", "u", "b", " ", "r", "e", "p", "o", ":">>
      [] OTHER -> <<"g", "i", "t", "h", "u", "b", " ", "w", "o", "r", "k", "f", "l", "o", "w", ":">>

\* metadata_prefix = "(\\s*(\\*|-)\\s*)?": what follows the optional bullet
metadata_prefix(s) ==
    LET t == LStrip(s)
    IN  IF t # <<>> /\ Head(t) \in {"*", "-"} THEN LStrip(Tail(t)) ELSE s

\* the length of the match of "github owner:", "github repo:",
\* "github workflow:" or "github run\\s?id:" at the start of s, 0 without one
KeyLen(s, field) ==
    IF field = "run id"
    THEN IF ~StartsWith(Lower(s), Key_run) THEN 0
         ELSE LET rest == SubSeq(s, Len(Key_run) + 1, Len(s))
              IN  IF StartsWith(Lower(rest), Key_id) THEN Len(Key_run) + Len(Key_id)
                  ELSE IF rest # <<>> /\ IsSpace(Head(rest))
                          /\ StartsWith(Lower(Tail(rest)), Key_id)
                       THEN Len(Key_run) + 1 + Len(Key_id)
                       ELSE 0
    ELSE IF StartsWith(Lower(s), Key(field)) THEN Len(Key(field)) ELSE 0

\* the length of the match of f"{metadata_prefix}github <field>:" at the start
\* of s, 0 without one
MatchLen(s, field) ==
    LET rest == metadata_prefix(s)
        k == KeyLen(rest, field)
    IN  IF k > 0 THEN Len(s) - Len(rest) + k ELSE 0

\* re.match(f"{metadata_prefix}github <field>:", x, flags=re.IGNORECASE)
re_match(x, field) == MatchLen(x, field) > 0

RECURSIVE re_sub(_, _)
\* re.sub(f"{metadata_prefix}github <field>:", "", x, flags=re.IGNORECASE):
\* every match in x is removed
re_sub(x, field) ==
    IF x = <<>> THEN <<>>
    ELSE IF MatchLen(x, field) > 0
         THEN re_sub(SubSeq(x, MatchLen(x, field) + 1, Len(x)), field)
         ELSE <<Head(x)>> \o re_sub(Tail(x), field)

\* next(map(lambda x: re.sub(...).strip(), filter(lambda x: re.match(...),
\* description)), None)
first_value(description, field) ==
    LET hits == SelectSeq(description, LAMBDA x : re_match(x, field))
    IN  IF hits = <<>> THEN None ELSE Some(Strip(re_sub(hits[1], field)))

\* A test that takes an empty value for a value.
Truthy_when_present(v) == v # None

\* the truth value of a str or None, as in "if owner and repo and workflow:"
Truthy(v) == v # None /\ v.value # <<>>

\* project["Description"].split("\n") if project["Description"] else []
description_lines(text) == IF Truthy(text) THEN Split(text.value, "\n") ELSE <<>>

get_project_github_workflow(pid, project) ==
    LET description == description_lines(project.Description)
        owner == first_value(description, "owner")
        repo == first_value(description, "repo")
        workflow == first_value(description, "workflow")
    IN  IF Truthy(owner) /\ Truthy(repo) /\ Truthy(workflow)
        THEN [ProjectId |-> pid, Owner |-> owner.value, Repo |-> repo.value,
              Workflow |-> workflow.value]
        ELSE None

get_release_github_workflow_from_desc(release_id, release) ==
    LET description == description_lines(release.ReleaseNotes)
        owner == first_value(description, "owner")
        repo == first_value(description, "repo")
        run_id == first_value(description, "run id")
    IN  IF Truthy(owner) /\ Truthy(repo) /\ Truthy(run_id)
        THEN << [ReleaseId |-> release_id, Owner |-> owner.value, Repo |-> repo.value,
                 RunId |-> run_id.value] >>
        ELSE <<>>

\* the position of the first element of s that is in chars, Len(s) + 1 if none
FirstOf(s, chars) ==
    IF \E k \in DOMAIN s : s[k] \in chars
    THEN CHOOSE k \in DOMAIN s : s[k] \in chars /\ \A j \in 1 .. k - 1 : s[j] \notin chars
    ELSE Len(s) + 1

\* urlparse(url).path: what follows scheme://netloc, up to the query or fragment
urlparse_path(url) ==
    LET colon == FirstOf(url, {":"})
        rest == IF colon + 2 <= Len(url) /\ url[colon + 1] = "/" /\ url[colon + 2] = "/"
                THEN LET tail == SubSeq(url, colon + 3, Len(url))
                     IN  SubSeq(tail, FirstOf(tail, {"/", "?", "#"}), Len(tail))
                ELSE url
    IN  SubSeq(rest, 1, FirstOf(rest, {"?", "#"}) - 1)

\* re.match("/(?P<Owner>[^/]+)/(?P<Repo>[^/]+)/actions/runs/(?P<RunId>[^/]+)", path)
runs_match(path) ==
    LET segs == Split(path, "/")
    IN  IF /\ Len(segs) >= 6 /\ segs[1] = <<>> /\ segs[2] # <<>> /\ segs[3] # <<>>
           /\ segs[4] = <<"a", "c", "t", "i", "o", "n", "s">>
           /\ segs[5] = <<"r", "u", "n", "s">> /\ segs[6] # <<>>
        THEN [Owner |-> segs[2], Repo |-> segs[3], RunId |-> segs[6]]
        ELSE None

get_release_github_workflow_from_buildinfo(release_id, release) ==
    LET urls == SelectSeq(release.BuildInformation, LAMBDA x : Truthy(x.BuildUrl))
        workflows == SelectSeq(urls,
                         LAMBDA x : runs_match(urlparse_path(x.BuildUrl.value)) # None)
    IN  [i \in DOMAIN workflows |->
            LET m == runs_match(urlparse_path(workflows[i].BuildUrl.value))
            IN  [ReleaseId |-> release_id, PackageId |-> workflows[i].PackageId,
                 Owner |-> m.Owner, Repo |-> m.Repo, RunId |-> m.RunId]]

\* An extractor that adds the release notes to the build information.
uses_release_notes_always(from_buildinfo) == TRUE

\* "... or get_release_github_workflow_from_desc(release_id, release)": the
\* right operand is evaluated only when the left one is an empty list
uses_release_notes(from_buildinfo) == from_buildinfo = <<>>

\* the two extractors as get_release_github_workflow_async combines them; the
\* release notes extractor is "not called" when the code does not call it
get_release_github_workflow(release_id, release) ==
    LET from_buildinfo == get_release_github_workflow_from_buildinfo(release_id, release)
        from_desc == get_release_github_workflow_from_desc(release_id, release)
    IN  IF uses_release_notes(from_buildinfo)
        THEN [result |-> from_desc, desc |-> Return(from_desc)]
        ELSE [result |-> from_buildinfo, desc |-> Pending]

\* The lines a project description is made of, each with the field and the
\* value it stands for.
ProjectLines ==
    {[text |-> <<"g", "i", "t", "h", "u", "b", " ", "o", "w", "n", "e", "r", ":", " ", "o", "1">>,
       field |-> "owner", value |-> <<"o", "1">>],
     [text |-> <<"*", " ", "G", "i", "t", "H", "u", "b", " ", "O", "w", "n", "e", "r", ":", " ", "o", "2">>,
       field |-> "owner", value |-> <<"o", "2">>],
     [text |-> <<"g", "i", "t", "h", "u", "b", " ", "o", "w", "n", "e", "r", ":">>,
       field |-> "owner", value |-> <<>>],
     [text |-> <<" ", "g", "i", "t", "h", "u", "b", " ", "o", "w", "n", "e", "r", ":", " ", "o", "3">>,
       field |-> "none", value |-> <<>>],
     [text |-> <<"g", "i", "t", "h", "u", "b", " ", "r", "e", "p", "o", ":", " ", "r", "1">>,
       field |-> "repo", value |-> <<"r", "1">>],
     [text |-> <<"-", " ", "g", "i", "t", "h", "u", "b", " ", "r", "e", "p", "o", ":", " ", " ">>,
       field |-> "repo", value |-> <<>>],
     [text |-> <<"g", "i", "t", "h", "u", "b", " ", "w", "o", "r", "k", "f", "l", "o", "w", ":", " ", "w", "1">>,
       field |-> "workflow", value |-> <<"w", "1">>],
     [text |-> <<"g", "i", "t", "h", "u", "b", " ", "w", "o", "r", "k", "f", "l", "o", "w", ":">>,
       field |-> "workflow", value |-> <<>>],
     [text |-> <<"n", "o", "t", "e", "s">>,
       field |-> "none", value |-> <<>>]}

\* The lines release notes are made of.
ReleaseLines ==
    {[text |-> <<"g", "i", "t", "h", "u", "b", " ", "o", "w", "n", "e", "r", ":", " ", "o", "1">>,
       field |-> "owner", value |-> <<"o", "1">>],
     [text |-> <<"-", " ", "G", "i", "t", "h", "u", "b", " ", "R", "e", "p", "o", ":", " ", "r", "1">>,
       field |-> "repo", value |-> <<"r", "1">>],
     [text |-> <<"g", "i", "t", "h", "u", "b", " ", "r", "u", "n", " ", "i", "d", ":", " ", "4", "2">>,
       field |-> "run id", value |-> <<"4", "2">>],
     [text |-> <<"g", "i", "t", "h", "u", "b", " ", "r", "u", "n", "i", "d", ":", " ", "4", "3">>,
       field |-> "run id", value |-> <<"4", "3">>],
     [text |-> <<"g", "i", "t", "h", "u", "b", " ", "r", "u", "n", " ", "i", "d", ":">>,
       field |-> "run id", value |-> <<>>]}

\* The build information entries of a release, each with the owner, repo
\* and run its URL names, if it names one.
BuildEntries ==
    {[BuildUrl |-> Some(<<"h", "t", "t", "p", "s", ":", "/", "/", "g", "i", "t", "h", "u", "b", ".", "c", "o", "m", "/", "o", "1", "/", "r", "1", "/", "a", "c", "t", "i", "o", "n", "s", "/", "r", "u", "n", "s", "/", "4", "2">>),
       PackageId |-> "pkg1", match |-> [Owner |-> <<"o", "1">>, Repo |-> <<"r", "1">>, RunId |-> <<"4", "2">>]],
     [BuildUrl |-> Some(<<"h", "t", "t", "p", "s", ":", "/", "/", "g", "i", "t", "h", "u", "b", ".", "c", "o", "m", "/", "o", "2", "/", "r", "2", "/", "a", "c", "t", "i", "o", "n", "s", "/", "r", "u", "n", "s", "/", "7", "/", "j", "o", "b", "/", "9", "?", "p", "r", "=", "1">>),
       PackageId |-> "pkg2", match |-> [Owner |-> <<"o", "2">>, Repo |-> <<"r", "2">>, RunId |-> <<"7">>]],
     [BuildUrl |-> Some(<<"h", "t", "t", "p", "s", ":", "/", "/", "g", "i", "t", "h", "u", "b", ".", "c", "o", "m", "/", "o", "1", "/", "r", "1", "/", "p", "u", "l", "l", "/", "3">>),
       PackageId |-> "pkg3", match |-> None],
     [BuildUrl |-> None,
       PackageId |-> "pkg4", match |-> None]}

LinesOf(fn) == IF fn = "get_project_github_workflow" THEN ProjectLines ELSE ReleaseLines

wf_id == "Id-1"

IdleWorkflow ==
    /\ wf_fn = "none" /\ wf_lines = <<>> /\ wf_text = None /\ wf_builds = <<>>
    /\ wf_desc = Pending /\ wf_result = Pending

\* a project or a release as the server returns it
InitWorkflow ==
    /\ wf_fn \in {"get_project_github_workflow", "get_release_github_workflow_async"}
    /\ wf_lines \in SeqsUpTo(LinesOf(wf_fn), MaxLines)
    /\ wf_text \in {Some(Join([i \in DOMAIN wf_lines |-> wf_lines[i].text], <<"\n">>))}
                  \cup (IF wf_lines = <<>> THEN {None} ELSE {})
    /\ wf_builds \in IF wf_fn = "get_project_github_workflow" THEN {<<>>}
                     ELSE SeqsUpTo(BuildEntries, MaxBuilds)
    /\ wf_desc = Pending
    /\ wf_result = Pending

\* get_project_github_workflow(space_id, project_id, ...) once get_project
\* has returned the project
ProjectWorkflow ==
    /\ wf_fn = "get_project_github_workflow" /\ wf_result = Pending
    /\ wf_result' = Return(get_project_github_workflow(wf_id, [Description |-> wf_text]))
    /\ UNCHANGED <<wf_fn, wf_lines, wf_text, wf_builds, wf_desc>>

\* get_release_github_workflow_async(space_id, release_id, ...) once
\* get_release_async has returned the release
ReleaseWorkflow ==
    /\ wf_fn = "get_release_github_workflow_async" /\ wf_result = Pending
    /\ LET out == get_release_github_workflow(wf_id, [BuildInformation |-> wf_builds,
                                                       ReleaseNotes |-> wf_text])
       IN  /\ wf_result' = Return(out.result)
           /\ wf_desc' = out.desc
    /\ UNCHANGED <<wf_fn, wf_lines, wf_text, wf_builds>>

(***************************************************************************)
(* run_published_runbook_fuzzy, create_release_fuzzy, deploy_release_fuzzy *)
(***************************************************************************)
Str_Backup == <<"B", "a", "c", "k", "u", "p">>
Str_Snapshot == <<"R", "u", "n", "b", "o", "o", "k", "S", "n", "a", "p", "s", "h", "o", "t", "s", "-", "1">>
Str_Run == <<"R", "u", "n", "b", "o", "o", "k", "R", "u", "n", "s", "-", "1">>

\* what a resolver (get_project_fuzzy, get_runbook_fuzzy, get_environment_fuzzy,
\* get_tenant_fuzzy) does with a name: it returns the resource, or raises
\* ResourceNotFound(kind, name), or one of handle_response's exceptions
LookupOutcomes(kind, name, resource) ==
    { Return(resource),
      Raise("ResourceNotFound", <<kind, name>>),
      Raise("OctopusApiKeyInvalid", <<>>),
      Raise("OctopusRequestFailed", <<>>) }

\* handle_response(lambda: http.request("POST", api, json=runbook_run, ...))
\* followed by response.json()
PostOutcomes ==
    { Return(Str_Run), Raise("OctopusApiKeyInvalid", <<>>), Raise("OctopusRequestFailed", <<>>) }

\* How many packages a release template names at most.
MaxPackages == 2

MutatingFunctions ==
    {"run_published_runbook_fuzzy", "create_release_fuzzy", "deploy_release_fuzzy"}

\* get_default_channel: the default channel, ResourceNotFound("Default
\* Channel", project_id), or an exception of handle_response
DefaultChannelOutcomes == LookupOutcomes("Default Channel", project_id, [Id |-> "Channels-1"])

\* get_release_template_and_default_branch, get_packages: the document or an
\* exception of handle_response; packages[0] of an empty list is an IndexError
TemplateOutcomes ==
    { Return(n) : n \in 0 .. MaxPackages }
       \cup { Raise("OctopusApiKeyInvalid", <<>>), Raise("OctopusRequestFailed", <<>>) }

PackageOutcomes ==
    { Return("1.0.0"), Raise("IndexError", <<>>),
      Raise("OctopusApiKeyInvalid", <<>>), Raise("OctopusRequestFailed", <<>>) }

\* A variant that takes every runbook for published.
is_published_always(runbook) == TRUE

\* runbook['PublishedRunbookSnapshotId'] is truthy
is_published(runbook) == Truthy(runbook.PublishedRunbookSnapshotId)

\* the call returns or raises
RunbookEnds(exc) ==
    /\ rb_pc' = "done"
    /\ rb_result' = exc

\* a lookup or the POST was made and ended with out
Called(label, out) ==
    /\ rb_calls' = Append(rb_calls, label)
    /\ rb_outcomes' = Append(rb_outcomes, out.kind)

\* the call goes on when the lookup returned and ends when it raised
Continue(out, pc) ==
    IF out.kind = "return"
    THEN rb_pc' = pc /\ UNCHANGED rb_result
    ELSE RunbookEnds(out)

IdleRunbook ==
    /\ rb_fn = "none" /\ rb_pc = "idle" /\ rb_tenant_name = None /\ rb_runbook = Pending
    /\ rb_channel_name = None /\ rb_packages = 0
    /\ rb_calls = <<>> /\ rb_outcomes = <<>> /\ rb_result = Pending
    /\ rb_log_query = FALSE /\ rb_logged = FALSE

\* the arguments have passed ensure_string_not_empty; tenant_name is optional
\* (run_published_runbook_fuzzy, deploy_release_fuzzy) and so is channel_name
\* (create_release_fuzzy)
InitRunbook ==
    /\ rb_fn \in MutatingFunctions
    /\ rb_pc = CASE rb_fn = "run_published_runbook_fuzzy" -> "project"
                 [] rb_fn = "create_release_fuzzy" -> "release_project"
                 [] OTHER -> "deploy_environment"
    /\ rb_tenant_name \in IF rb_fn = "create_release_fuzzy" THEN {None}
                          ELSE {None, Some(<<>>), Some(Str_Qa)}
    /\ rb_channel_name \in IF rb_fn = "create_release_fuzzy"
                           THEN {None, Some(<<>>), Some(Str_Dev)} ELSE {None}
    /\ rb_packages = 0
    /\ rb_runbook = Pending
    /\ rb_calls = <<>>
    /\ rb_outcomes = <<>>
    /\ rb_log_query \in BOOLEAN
    /\ rb_logged = FALSE
    /\ rb_result = Pending

\* project = get_project_fuzzy(space_id, project_name, ...)
RunbookProjectLookup ==
    /\ rb_pc = "project"
    /\ \E out \in LookupOutcomes("Project", Str_Prod, [Id |-> project_id]) :
          Called("get_project_fuzzy", out) /\ Continue(out, "runbook")
    /\ UNCHANGED <<rb_fn, rb_tenant_name, rb_channel_name, rb_packages, rb_runbook,
                   rb_log_query, rb_logged>>

\* runbook = get_runbook_fuzzy(space_id, project["Id"], runbook_name, ...)
RunbookLookup ==
    /\ rb_pc = "runbook"
    /\ \E snapshot \in {None, Some(<<>>), Some(Str_Snapshot)} :
       \E out \in LookupOutcomes("Runbook", Str_Backup,
                                 [Name |-> Str_Backup, PublishedRunbookSnapshotId |-> snapshot]) :
          /\ Called("get_runbook_fuzzy", out)
          /\ Continue(out, "environment")
          /\ rb_runbook' = IF out.kind = "return" THEN out.value ELSE rb_runbook
    /\ UNCHANGED <<rb_fn, rb_tenant_name, rb_channel_name, rb_packages, rb_log_query,
                   rb_logged>>

\* environment = get_environment_fuzzy(space_id, environment_name, ...)
RunbookEnvironmentLookup ==
    /\ rb_pc = "environment"
    /\ \E out \in LookupOutcomes("Environment", Str_Dev, [Name |-> Str_Dev]) :
          Called("get_environment_fuzzy", out) /\ Continue(out, "tenant")
    /\ UNCHANGED <<rb_fn, rb_tenant_name, rb_channel_name, rb_packages, rb_runbook,
                   rb_log_query, rb_logged>>

\* tenant = get_tenant_fuzzy(space_id, tenant_name, ...) if tenant_name else None
RunbookTenantLookup ==
    /\ rb_pc = "tenant"
    /\ IF Truthy(rb_tenant_name)
       THEN \E out \in LookupOutcomes("Tenant", rb_tenant_name.value,
                                      [Name |-> rb_tenant_name.value]) :
               Called("get_tenant_fuzzy", out) /\ Continue(out, "published")
       ELSE rb_pc' = "published" /\ UNCHANGED <<rb_calls, rb_outcomes, rb_result>>
    /\ UNCHANGED <<rb_fn, rb_tenant_name, rb_channel_name, rb_packages, rb_runbook,
                   rb_log_query, rb_logged>>

\* if not runbook['PublishedRunbookSnapshotId']: raise RunbookNotPublished(runbook_name)
RunbookPublishedCheck ==
    /\ rb_pc = "published"
    /\ IF ~is_published(rb_runbook)
       THEN RunbookEnds(Raise("RunbookNotPublished", <<Str_Backup>>))
       ELSE rb_pc' = "post" /\ UNCHANGED rb_result
    /\ UNCHANGED <<rb_fn, rb_tenant_name, rb_channel_name, rb_packages, rb_runbook, rb_calls,
                   rb_outcomes, rb_log_query, rb_logged>>

\* if log_query: log_query("run_published_runbook_fuzzy", ...)
\* response = handle_response(lambda: http.request("POST", api, json=runbook_run, ...))
\* return response.json()
RunbookPost ==
    /\ rb_pc = "post"
    /\ rb_logged' = rb_log_query
    /\ \E out \in PostOutcomes : Called("POST runbookRuns", out) /\ RunbookEnds(out)
    /\ UNCHANGED <<rb_fn, rb_tenant_name, rb_channel_name, rb_packages, rb_runbook,
                   rb_log_query>>

\* create_release_fuzzy: project = get_project_fuzzy(space_id, project_name, ...)
ReleaseProjectLookup ==
    /\ rb_pc = "release_project"
    /\ \E out \in LookupOutcomes("Project", Str_Prod, [Id |-> project_id]) :
          Called("get_project_fuzzy", out) /\ Continue(out, "release_channel")
    /\ UNCHANGED <<rb_fn, rb_tenant_name, rb_channel_name, rb_packages, rb_runbook,
                   rb_log_query, rb_logged>>

\* if not channel_name: channel = get_default_channel(...)
\* else: channel = get_channel_by_name(...)
ReleaseChannelLookup ==
    /\ rb_pc = "release_channel"
    /\ IF ~Truthy(rb_channel_name)
       THEN \E out \in DefaultChannelOutcomes :
               Called("get_default_channel", out) /\ Continue(out, "release_template")
       ELSE \E out \in LookupOutcomes("Channel", project_id, [Id |-> "Channels-2"]) :
               Called("get_channel_by_name", out) /\ Continue(out, "release_template")
    /\ UNCHANGED <<rb_fn, rb_tenant_name, rb_channel_name, rb_packages, rb_runbook,
                   rb_log_query, rb_logged>>

\* release_template, default_branch = get_release_template_and_default_branch(...)
ReleaseTemplateLookup ==
    /\ rb_pc = "release_template"
    /\ \E out \in TemplateOutcomes :
          /\ Called("get_release_template_and_default_branch", out)
          /\ Continue(out, "release_packages")
          /\ rb_packages' = IF out.kind = "return" THEN out.value ELSE rb_packages
    /\ UNCHANGED <<rb_fn, rb_tenant_name, rb_channel_name, rb_runbook, rb_log_query,
                   rb_logged>>

\* for template_package in release_template['Packages']:
\*     packages = get_packages(...); ... 'Version': packages[0]['Version']
ReleasePackageLookup ==
    /\ rb_pc = "release_packages"
    /\ IF rb_packages > 0
       THEN \E out \in PackageOutcomes :
               /\ Called("get_packages", out)
               /\ Continue(out, "release_packages")
               /\ rb_packages' = rb_packages - 1
       ELSE rb_pc' = "release_post" /\ UNCHANGED <<rb_calls, rb_outcomes, rb_result, rb_packages>>
    /\ UNCHANGED <<rb_fn, rb_tenant_name, rb_channel_name, rb_runbook, rb_log_query,
                   rb_logged>>

\* if log_query: log_query("create_release_fuzzy", ...)
\* response = handle_response(lambda: http.request("POST", api, json=release_request, ...))
\* return response.json()
ReleasePost ==
    /\ rb_pc = "release_post"
    /\ rb_logged' = rb_log_query
    /\ \E out \in PostOutcomes : Called("POST releases", out) /\ RunbookEnds(out)
    /\ UNCHANGED <<rb_fn, rb_tenant_name, rb_channel_name, rb_packages, rb_runbook,
                   rb_log_query>>

\* deploy_release_fuzzy: environment = get_environment_fuzzy(space_id, environment_name, ...)
DeployEnvironmentLookup ==
    /\ rb_pc = "deploy_environment"
    /\ \E out \in LookupOutcomes("Environment", Str_Dev, [Name |-> Str_Dev]) :
          Called("get_environment_fuzzy", out) /\ Continue(out, "deploy_tenant")
    /\ UNCHANGED <<rb_fn, rb_tenant_name, rb_channel_name, rb_packages, rb_runbook,
                   rb_log_query, rb_logged>>

\* if tenant_name: tenant = get_tenant_fuzzy(space_id, tenant_name, ...)
DeployTenantLookup ==
    /\ rb_pc = "deploy_tenant"
    /\ IF Truthy(rb_tenant_name)
       THEN \E out \in LookupOutcomes("Tenant", rb_tenant_name.value,
                                      [Name |-> rb_tenant_name.value]) :
               Called("get_tenant_fuzzy", out) /\ Continue(out, "deploy_post")
       ELSE rb_pc' = "deploy_post" /\ UNCHANGED <<rb_calls, rb_outcomes, rb_result>>
    /\ UNCHANGED <<rb_fn, rb_tenant_name, rb_channel_name, rb_packages, rb_runbook,
                   rb_log_query, rb_logged>>

\* if log_query: log_query("deploy_release_fuzzy", ...)
\* response = handle_response(lambda: http.request("POST", api, json=deploy_request, ...))
\* return response.json()
DeployPost ==
    /\ rb_pc = "deploy_post"
    /\ rb_logged' = rb_log_query
    /\ \E out \in PostOutcomes : Called("POST deployments", out) /\ RunbookEnds(out)
    /\ UNCHANGED <<rb_fn, rb_tenant_name, rb_channel_name, rb_packages, rb_runbook,
                   rb_log_query>>

(***************************************************************************)
(* get_runbook_deployment_logs                                             *)
(***************************************************************************)
\* How many runs the task list holds at most.
MaxRuns == 2

Str_Environments1 == <<"E", "n", "v", "i", "r", "o", "n", "m", "e", "n", "t", "s", "-", "1">>
Str_Tenants1 == <<"T", "e", "n", "a", "n", "t", "s", "-", "1">>
Str_ServerTasks == <<"S", "e", "r", "v", "e", "r", "T", "a", "s", "k", "s", "-">>

\* the id of the k-th run of the runbook
TaskId(k) == Str_ServerTasks \o <<(<<"1", "2", "3", "4", "5", "6", "7", "8", "9">>)[k]>>

\* the str a function returns, as opposed to a document
StrResult(s) == [kind |-> "str", value |-> s]

\* task["ActivityLogs"] of the task with the given id
ActivityLogsOf(id) == [kind |-> "ActivityLogs", task |-> id]

\* json.loads(resp.data.decode("utf-8")).get("Items") of bff/tasks/list: no
\* Items, or the runs, latest first; or an exception of handle_response
TaskListOutcomes ==
    { Return(None) }
       \cup { Return([kind |-> "list", items |-> [i \in 1 .. n |-> [Id |-> TaskId(n + 1 - i)]]]) :
              n \in 0 .. MaxRuns }
       \cup { Raise("OctopusApiKeyInvalid", <<>>), Raise("OctopusRequestFailed", <<>>) }

\* the details of a task: task["ActivityLogs"], or an exception of handle_response
TaskDetailsOutcomes(id) ==
    { Return(ActivityLogsOf(id)),
      Raise("OctopusApiKeyInvalid", <<>>), Raise("OctopusRequestFailed", <<>>) }

\* query = dict(skip=0, ..., includeSystem="false", environment=environment["Id"])
\* if environment: query["environment"] = environment["Id"]
\* if tenant: query["tenant"] = tenant["Id"]
\* None["Id"] is a TypeError; an entry of None stands for a key that is absent
build_query(environment, tenant) ==
    IF environment = None
    THEN Raise("TypeError", <<>>)
    ELSE Return([environment |-> Some(environment.Id),
                 tenant |-> IF tenant # None THEN Some(tenant.Id) ELSE None])

\* not runs
NoRuns(runs) == runs = None \/ Len(runs.items) = 0

\* the call returns or raises
RunbookLogsEnds(result) ==
    /\ rl_pc' = "done"
    /\ rl_result' = result

\* a remote call was made and ended with out
RunbookLogsCalled(label, out) ==
    /\ rl_calls' = Append(rl_calls, label)
    /\ rl_outcomes' = Append(rl_outcomes, out.kind)

\* the call goes on when the remote call returned and ends when it raised
RunbookLogsContinue(out, pc) ==
    IF out.kind = "return"
    THEN rl_pc' = pc /\ UNCHANGED rl_result
    ELSE RunbookLogsEnds(out)

IdleRunbookLogs ==
    /\ rl_pc = "idle" /\ rl_environment_name = None /\ rl_tenant_name = None
    /\ rl_environment = None /\ rl_tenant = None /\ rl_query = Pending /\ rl_runs = Pending
    /\ rl_calls = <<>> /\ rl_outcomes = <<>> /\ rl_result = Pending

\* space_name, project_name, runbook_name, octopus_url and api_key have
\* passed ensure_string_not_empty; environment_name and tenant_name are not checked
InitRunbookLogs ==
    /\ rl_pc = "space"
    /\ rl_environment_name \in {None, Some(<<>>), Some(Str_Dev)}
    /\ rl_tenant_name \in {None, Some(<<>>), Some(Str_Qa)}
    /\ rl_environment = None
    /\ rl_tenant = None
    /\ rl_query = Pending
    /\ rl_runs = Pending
    /\ rl_calls = <<>>
    /\ rl_outcomes = <<>>
    /\ rl_result = Pending

\* space_id, actual_space_name = get_space_id_and_name_from_name(space_name, ...)
RunbookLogsSpaceLookup ==
    /\ rl_pc = "space"
    /\ \E out \in { Return(Str_Spaces \o <<"1">>), Raise("SpaceNotFound", <<Str_Prod>>),
                    Raise("OctopusApiKeyInvalid", <<>>), Raise("OctopusRequestFailed", <<>>) } :
          RunbookLogsCalled("get_space_id_and_name_from_name", out)
             /\ RunbookLogsContinue(out, "project")
    /\ UNCHANGED <<rl_environment_name, rl_tenant_name, rl_environment, rl_tenant, rl_query,
                   rl_runs>>

\* project = get_project(space_id, project_name, api_key, octopus_url)
RunbookLogsProjectLookup ==
    /\ rl_pc = "project"
    /\ \E out \in LookupOutcomes("Project", Str_Prod, [Id |-> project_id]) :
          RunbookLogsCalled("get_project", out) /\ RunbookLogsContinue(out, "runbook")
    /\ UNCHANGED <<rl_environment_name, rl_tenant_name, rl_environment, rl_tenant, rl_query,
                   rl_runs>>

\* runbook = get_runbook_fuzzy(space_id, project["Id"], runbook_name, ...)
RunbookLogsRunbookLookup ==
    /\ rl_pc = "runbook"
    /\ \E out \in LookupOutcomes("Runbook", Str_Backup, [Name |-> Str_Backup]) :
          RunbookLogsCalled("get_runbook_fuzzy", out) /\ RunbookLogsContinue(out, "environment")
    /\ UNCHANGED <<rl_environment_name, rl_tenant_name, rl_environment, rl_tenant, rl_query,
                   rl_runs>>

\* environment = None
\* if environment_name: environment = get_environment_fuzzy(...)
RunbookLogsEnvironmentLookup ==
    /\ rl_pc = "environment"
    /\ IF Truthy(rl_environment_name)
       THEN \E out \in LookupOutcomes("Environment", rl_environment_name.value,
                                      [Id |-> Str_Environments1]) :
               /\ RunbookLogsCalled("get_environment_fuzzy", out)
               /\ RunbookLogsContinue(out, "tenant")
               /\ rl_environment' = IF out.kind = "return" THEN out.value ELSE None
       ELSE /\ rl_pc' = "tenant"
            /\ rl_environment' = None
            /\ UNCHANGED <<rl_calls, rl_outcomes, rl_result>>
    /\ UNCHANGED <<rl_environment_name, rl_tenant_name, rl_tenant, rl_query, rl_runs>>

\* tenant = None
\* if tenant_name: tenant = get_tenant_fuzzy(...)
RunbookLogsTenantLookup ==
    /\ rl_pc = "tenant"
    /\ IF Truthy(rl_tenant_name)
       THEN \E out \in LookupOutcomes("Tenant", rl_tenant_name.value, [Id |-> Str_Tenants1]) :
               /\ RunbookLogsCalled("get_tenant_fuzzy", out)
               /\ RunbookLogsContinue(out, "query")
               /\ rl_tenant' = IF out.kind = "return" THEN out.value ELSE None
       ELSE /\ rl_pc' = "query"
            /\ rl_tenant' = None
            /\ UNCHANGED <<rl_calls, rl_outcomes, rl_result>>
    /\ UNCHANGED <<rl_environment_name, rl_tenant_name, rl_environment, rl_query, rl_runs>>

\* query = dict(...); if environment: ...; if tenant: ...
RunbookLogsBuildQuery ==
    /\ rl_pc = "query"
    /\ LET built == build_query(rl_environment, rl_tenant)
       IN IF built.kind = "raise"
          THEN RunbookLogsEnds(built) /\ UNCHANGED rl_query
          ELSE rl_pc' = "tasks" /\ rl_query' = built.value /\ UNCHANGED rl_result
    /\ UNCHANGED <<rl_environment_name, rl_tenant_name, rl_environment, rl_tenant, rl_runs,
                   rl_calls, rl_outcomes>>

\* resp = handle_response(lambda: http.request("GET", api, ...))   (bff/tasks/list)
\* runs = json.loads(resp.data.decode("utf-8")).get("Items")
\* if not runs: return ""
RunbookLogsTaskList ==
    /\ rl_pc = "tasks"
    /\ \E out \in TaskListOutcomes :
          /\ RunbookLogsCalled("GET bff/tasks/list", out)
          /\ IF out.kind = "raise"
             THEN RunbookLogsEnds(out) /\ UNCHANGED rl_runs
             ELSE /\ rl_runs' = out.value
                  /\ IF NoRuns(out.value)
                     THEN RunbookLogsEnds(Return(StrResult(<<>>)))
                     ELSE rl_pc' = "details" /\ UNCHANGED rl_result
    /\ UNCHANGED <<rl_environment_name, rl_tenant_name, rl_environment, rl_tenant, rl_query>>

\* task_id = runs[0]["Id"] if runs else None
\* resp = handle_response(lambda: http.request("GET", api, ...))   (Tasks/{task_id}/details)
\* task = json.loads(resp.data.decode("utf-8")); return task["ActivityLogs"]
RunbookLogsTaskDetails ==
    /\ rl_pc = "details"
    /\ \E out \in TaskDetailsOutcomes(rl_runs.items[1].Id) :
          RunbookLogsCalled("GET Tasks/details", out) /\ RunbookLogsEnds(out)
    /\ UNCHANGED <<rl_environment_name, rl_tenant_name, rl_environment, rl_tenant, rl_query,
                   rl_runs>>

(***************************************************************************)
(* sem, get_task_details_async, get_release_async; get_current_user as the *)
(* synchronous call made beside them                                       *)
(***************************************************************************)
\* How many calls are made in the model.
MaxRequests == 12

\* sem = asyncio.Semaphore(10)
SemaphoreSize == 10

AsyncFns == {"get_task_details_async", "get_release_async"}
SyncFns == {"get_current_user"}

Str_Doc == <<"D", "o", "c", "-", "1">>

\* the replies to a GET: the document, an error status with Octopus' JSON
\* error body, or no reply at all (the client raises)
FetchReplies ==
    { OkResponse([Id |-> Str_Doc]),
      [kind |-> "response", status |-> 401, data |-> ErrorBody, json |-> [ErrorMessage |-> ErrorBody]],
      [kind |-> "response", status |-> 500, data |-> ErrorBody, json |-> [ErrorMessage |-> ErrorBody]],
      [kind |-> "ClientError", status |-> 0, data |-> <<>>, json |-> None] }

\* async with session.get(str(api)) as response: return await response.json()
async_fetch_result(reply) ==
    IF reply.kind = "ClientError" THEN Raise("ClientError", <<>>)
    ELSE Return(reply.json)

\* resp = handle_response(lambda: http.request("GET", api, ...)); json = resp.json()
sync_call_result(reply) ==
    IF reply.kind = "ClientError" THEN Raise("HTTPError", <<>>)
    ELSE IF handle_response(reply).kind = "raise" THEN handle_response(reply)
    ELSE Return(reply.json)

\* the call ends
CallEnds(fn, status, result) ==
    /\ as_done' = as_done + 1
    /\ as_last' = [fn |-> fn, status |-> status, result |-> result]

IdleAsync ==
    /\ sem_value = SemaphoreSize /\ as_started = 0 /\ as_done = 0
    /\ as_waiting = [f \in AsyncFns |-> 0]
    /\ as_inflight = [f \in AsyncFns \cup SyncFns |-> 0]
    /\ as_last = Pending

InitAsync == IdleAsync

\* get_task_details_async / get_release_async up to "async with sem:": a
\* missing task_id returns None at once; otherwise the call takes a permit
\* or, when none is left, suspends in sem's acquire
AsyncFetchBegin ==
    /\ as_started < MaxRequests
    /\ as_started' = as_started + 1
    /\ \E f \in AsyncFns, has_id \in BOOLEAN :
          IF f = "get_task_details_async" /\ ~has_id
          THEN /\ CallEnds(f, 0, Return(None))
               /\ UNCHANGED <<sem_value, as_waiting, as_inflight>>
          ELSE /\ has_id
               /\ IF sem_value > 0
                  THEN /\ sem_value' = sem_value - 1
                       /\ as_inflight' = [as_inflight EXCEPT ![f] = @ + 1]
                       /\ UNCHANGED as_waiting
                  ELSE /\ as_waiting' = [as_waiting EXCEPT ![f] = @ + 1]
                       /\ UNCHANGED <<sem_value, as_inflight>>
               /\ UNCHANGED <<as_done, as_last>>

\* a suspended call is woken once a permit was released and takes it
AsyncFetchResume ==
    /\ sem_value > 0
    /\ \E f \in AsyncFns :
          /\ as_waiting[f] > 0
          /\ as_waiting' = [as_waiting EXCEPT ![f] = @ - 1]
          /\ as_inflight' = [as_inflight EXCEPT ![f] = @ + 1]
    /\ sem_value' = sem_value - 1
    /\ UNCHANGED <<as_started, as_done, as_last>>

\* A variant that gives the permit back only when the body returned.
sem_after_exit_on_return(value, reply) ==
    IF reply.kind = "ClientError" THEN value ELSE value + 1

\* leaving "async with sem:": the permit is released whether the body
\* returned or raised
sem_after_exit(value, reply) == value + 1

\* the reply arrives: return await response.json(), leaving "async with sem"
AsyncFetchReply ==
    /\ \E f \in AsyncFns, reply \in FetchReplies :
          /\ as_inflight[f] > 0
          /\ as_inflight' = [as_inflight EXCEPT ![f] = @ - 1]
          /\ CallEnds(f, reply.status, async_fetch_result(reply))
          /\ sem_value' = sem_after_exit(sem_value, reply)
    /\ UNCHANGED <<as_started, as_waiting>>

\* get_current_user up to http.request(...), called while fetches are in flight
SyncCallBegin ==
    /\ as_started < MaxRequests
    /\ as_started' = as_started + 1
    /\ \E f \in SyncFns : as_inflight' = [as_inflight EXCEPT ![f] = @ + 1]
    /\ UNCHANGED <<sem_value, as_waiting, as_done, as_last>>

\* http.request returns (or raises) and handle_response classifies the status
SyncCallReply ==
    /\ \E f \in SyncFns, reply \in FetchReplies :
          /\ as_inflight[f] > 0
          /\ as_inflight' = [as_inflight EXCEPT ![f] = @ - 1]
          /\ CallEnds(f, reply.status, sync_call_result(reply))
    /\ UNCHANGED <<sem_value, as_started, as_waiting>>

(***************************************************************************)
(* get_environment_fuzzy_cached and get_tenant_fuzzy_cached called by two  *)
(* threads.  A thread switch may fall between any two statements; a        *)
(* statement's dict operations are taken as one step.                      *)
(***************************************************************************)
Threads == {1, 2}

RaceFunctions == {"get_environment_fuzzy_cached", "get_tenant_fuzzy_cached"}

\* The caches before the two calls: as created; with the tables of a server
\* and a space that hold nothing yet (an earlier lookup there raised); with a
\* space table that holds another name.
StartCaches ==
    LET table(names) == DictSet(EmptyDict, "https://a.octopus.app",
                                DictSet(EmptyDict, "Spaces-1", names))
    IN { EmptyDict,
         table(EmptyDict),
         table(DictSet(EmptyDict, "Prod", [Id |-> 9, Name |-> "Prod"])) }

\* the call a thread makes
CallOf(t) == th_call[t]

\* the cache of the function a thread is in
CacheAt(t) == CacheOf(CallOf(t).fn)

\* an assignment into the cache of the function a thread is in
SetCache(t, cache) ==
    /\ environment_cache' =
          IF CallOf(t).fn = "get_environment_fuzzy_cached" THEN cache ELSE environment_cache
    /\ tenant_cache' =
          IF CallOf(t).fn = "get_tenant_fuzzy_cached" THEN cache ELSE tenant_cache

\* the thread goes on to another statement
Goto(t, pc) == th_pc' = [th_pc EXCEPT ![t] = pc] /\ UNCHANGED th_result

\* the thread's call returns or raises
ThreadEnds(t, result) ==
    /\ th_pc' = [th_pc EXCEPT ![t] = "done"]
    /\ th_result' = [th_result EXCEPT ![t] = result]

\* cache[octopus_url][space_id] raises KeyError when the space has no table
HasSpaceTable(cache, c) ==
    c.octopus_url \in DOMAIN cache /\ c.space_id \in DOMAIN cache[c.octopus_url]

IdleRace ==
    /\ th_call = <<>> /\ th_pc = <<>> /\ th_outcome = <<>> /\ th_result = <<>>
    /\ last_written = EmptyDict

InitRace ==
    /\ environment_cache \in StartCaches
    /\ tenant_cache = environment_cache
    /\ channel_cache = EmptyDict
    /\ n_calls = 0 /\ last_call = None /\ first_result = EmptyDict
    /\ th_call \in [Threads -> { [fn |-> f, octopus_url |-> k[1], space_id |-> k[2], name |-> k[3]] :
                                   f \in RaceFunctions, k \in CacheKeys }]
    /\ th_pc = [t \in Threads |-> "server_check"]
    /\ th_outcome = [t \in Threads |-> Pending]
    /\ th_result = [t \in Threads |-> Pending]
    /\ last_written = EmptyDict

\* if not environment_cache.get(octopus_url):
ServerCheck(t) ==
    /\ th_pc[t] = "server_check"
    /\ IF DictMissing(CacheAt(t), CallOf(t).octopus_url)
       THEN Goto(t, "server_set")
       ELSE Goto(t, "space_check")
    /\ UNCHANGED <<environment_cache, tenant_cache, th_outcome, last_written>>

\* environment_cache[octopus_url] = {}
ServerSet(t) ==
    /\ th_pc[t] = "server_set"
    /\ SetCache(t, DictSet(CacheAt(t), CallOf(t).octopus_url, EmptyDict))
    /\ Goto(t, "space_check")
    /\ UNCHANGED <<th_outcome, last_written>>

\* if not environment_cache[octopus_url].get(space_id):
SpaceCheck(t) ==
    /\ th_pc[t] = "space_check"
    /\ IF DictMissing(CacheAt(t)[CallOf(t).octopus_url], CallOf(t).space_id)
       THEN Goto(t, "space_set")
       ELSE Goto(t, "name_check")
    /\ UNCHANGED <<environment_cache, tenant_cache, th_outcome, last_written>>

\* environment_cache[octopus_url][space_id] = {}
SpaceSet(t) ==
    /\ th_pc[t] = "space_set"
    /\ SetCache(t, DictSet(CacheAt(t), CallOf(t).octopus_url,
                           DictSet(CacheAt(t)[CallOf(t).octopus_url], CallOf(t).space_id,
                                   EmptyDict)))
    /\ Goto(t, "name_check")
    /\ UNCHANGED <<th_outcome, last_written>>

\* if not environment_cache[octopus_url][space_id].get(environment_name):
NameCheck(t) ==
    /\ th_pc[t] = "name_check"
    /\ IF ~HasSpaceTable(CacheAt(t), CallOf(t))
       THEN ThreadEnds(t, Raise("KeyError", <<CallOf(t).space_id>>))
       ELSE IF cache_hit(CacheAt(t), CallOf(t).octopus_url, CallOf(t).space_id, CallOf(t).name)
            THEN Goto(t, "return")
            ELSE Goto(t, "resolve")
    /\ UNCHANGED <<environment_cache, tenant_cache, th_outcome, last_written>>

\* get_environment_fuzzy(space_id, environment_name, api_key, octopus_url),
\* the right-hand side of the assignment
Resolve(t) ==
    /\ th_pc[t] = "resolve"
    /\ \E outcome \in ResolverOutcomes(CallOf(t).fn, CallOf(t).name, "API-VALID") :
          /\ th_outcome' = [th_outcome EXCEPT ![t] = outcome]
          /\ IF outcome.kind = "return" THEN Goto(t, "store") ELSE ThreadEnds(t, outcome)
    /\ UNCHANGED <<environment_cache, tenant_cache, last_written>>

\* environment_cache[octopus_url][space_id][environment_name] = <the resolver's value>
Store(t) ==
    /\ th_pc[t] = "store"
    /\ IF ~HasSpaceTable(CacheAt(t), CallOf(t))
       THEN /\ ThreadEnds(t, Raise("KeyError", <<CallOf(t).space_id>>))
            /\ UNCHANGED <<environment_cache, tenant_cache, last_written>>
       ELSE /\ SetCache(t, cache_store(CacheAt(t), CallOf(t).octopus_url, CallOf(t).space_id,
                                       CallOf(t).name, th_outcome[t].value))
            /\ last_written' = DictSet(last_written, CallOf(t), th_outcome[t].value)
            /\ Goto(t, "return")
    /\ UNCHANGED th_outcome

\* return environment_cache[octopus_url][space_id][environment_name]
ReturnCached(t) ==
    /\ th_pc[t] = "return"
    /\ IF ~HasSpaceTable(CacheAt(t), CallOf(t))
       THEN ThreadEnds(t, Raise("KeyError", <<CallOf(t).space_id>>))
       ELSE IF ~cache_hit(CacheAt(t), CallOf(t).octopus_url, CallOf(t).space_id, CallOf(t).name)
            THEN ThreadEnds(t, Raise("KeyError", <<CallOf(t).name>>))
            ELSE ThreadEnds(t, Return(CacheAt(t)[CallOf(t).octopus_url][CallOf(t).space_id][CallOf(t).name]))
    /\ UNCHANGED <<environment_cache, tenant_cache, th_outcome, last_written>>

(***************************************************************************)
(* Properties of handle_response                                           *)
(***************************************************************************)
\* C8: handle_response classifies every status in exactly one way: 401 raises
\* OctopusApiKeyInvalid; any other status that is neither 200 nor 201 raises
\* OctopusRequestFailed whose message ends with the raw response body; 200 and
\* 201 return the response object unchanged.
C8_HandleResponseClassifies ==
    handled # Pending =>
        /\ response.status = 401 =>
              handled.kind = "raise" /\ handled.exc = "OctopusApiKeyInvalid"
        /\ response.status \notin {200, 201, 401} =>
              /\ handled.kind = "raise"
              /\ handled.exc = "OctopusRequestFailed"
              /\ Len(handled.args) = Len(RequestFailedPrefix) + Len(response.data)
              /\ SubSeq(handled.args, Len(RequestFailedPrefix) + 1, Len(handled.args))
                    = response.data
        /\ response.status \in {200, 201} =>
              handled.kind = "return" /\ handled.value = response

\* A 503 with a body was classified as a request failure.
C8_Witness ==
    /\ handled # Pending
    /\ response.status = 503
    /\ response.data = <<"o", "o", "p", "s">>
    /\ handled.kind = "raise"
    /\ handled.exc = "OctopusRequestFailed"

(***************************************************************************)
(* Properties of the generators                                            *)
(***************************************************************************)
RECURSIVE LeadingFull(_)
\* The number of leading batches of exactly Take items.
LeadingFull(bs) ==
    IF bs # <<>> /\ Head(bs) = Take THEN 1 + LeadingFull(Tail(bs)) ELSE 0

\* The size of the first batch that is not full (the empty batch when the
\* scripted batches run out).
FirstShort ==
    LET n == LeadingFull(batches)
    IN IF n < Len(batches) THEN batches[n + 1] ELSE 0

\* C2: for batches of sizes Take, ..., Take, k with k < Take the generator
\* issues exactly (number of full batches + 1) page requests and then stops,
\* having yielded every item of every batch once, in request order; batches
\* [30, 30, 17] give 77 items in 3 requests and [30, 30, 30, 0] give 90 in 4.
C2_PaginatorTermination ==
    LET n == LeadingFull(batches)
    IN FirstShort < Take =>
         /\ Len(requests) <= n + 1
         /\ gen_pc = "done" =>
               /\ Len(requests) = n + 1
               /\ yielded = [i \in 1 .. (n * Take + FirstShort) |-> i]
         /\ (gen_pc = "done" /\ batches = <<30, 30, 17>>) =>
               Len(yielded) = 77 /\ Len(requests) = 3
         /\ (gen_pc = "done" /\ batches = <<30, 30, 30, 0>>) =>
               Len(yielded) = 90 /\ Len(requests) = 4

\* The generator has finished the listing [30, 30, 17].
C2_Witness ==
    /\ gen_pc = "done"
    /\ batches = <<30, 30, 17>>
    /\ Len(yielded) = 77
    /\ Len(requests) = 3


\* C17: the k-th page request of a generator carries skip = Take * (k - 1) and
\* take = Take.  The offset is the generator's own: a generator that has
\* requested nothing yet is at skip 0, whichever generators ran before it, and
\* the first request of every generator carried skip 0.
C17_PageRequestOffsets ==
    /\ \A k \in DOMAIN requests : requests[k] = <<Take * (k - 1), Take>>
    /\ requests = <<>> => (skip = 0 /\ gen_pc = "fetch")
    /\ gen_pc = "fetch" => skip = Take * Len(requests)
    /\ \A i \in DOMAIN firsts : firsts[i].requests[1] = <<0, Take>>

\* a loop over one generator has fetched three pages
C17_Witness ==
    /\ caller = "for" /\ gen_pc = "done"
    /\ requests = <<<<0, 30>>, <<30, 30>>, <<60, 30>>>>

\* a generator called after another one has sent its first request
C17_WitnessNewInvocation ==
    /\ firsts # <<>> /\ Len(firsts[1].items) = 1
    /\ requests = <<<<0, Take>>>>

\* C18: page requests are strictly sequential.  At most one page request is
\* unanswered, and only while the generator waits for it or has failed on it;
\* page k + 1 is requested only after page k was received with exactly Take
\* items and all of them were yielded.
C18_SequentialPageRequests ==
    /\ Len(requests) - Len(received) \in {0, 1}
    /\ Len(requests) > Len(received) <=> gen_pc \in {"wait", "failed"}
    /\ \A k \in DOMAIN requests :
          k > 1 => /\ k - 1 \in DOMAIN received
                   /\ received[k - 1] = Take
                   /\ Len(yielded) >= Take * (k - 1)
    /\ attempts <= Tries

\* the second page request is in flight after a full first page
C18_Witness ==
    /\ gen_pc = "wait" /\ Len(requests) = 2 /\ received = <<Take>>
    /\ Len(yielded) = Take

OnePageForTheFirstItem ==
    /\ \A i \in DOMAIN firsts :
          /\ firsts[i].requests = <<<<0, Take>>>>
          /\ Len(firsts[i].items) <= 1
          /\ Len(firsts[i].items) = 0 <=> firsts[i].page = 0
    /\ caller = "first" => (Len(requests) <= 1 /\ Len(yielded) <= 1)
    /\ Len(firsts) <= FirstItemGenerators
    /\ (consumer = "stopped" /\ Len(yielded) = 1) => requests = <<<<0, Take>>>>

\* C19: a consumer that takes only the first item causes one page request,
\* with skip 0, and no second one.  Each of the three generators that
\* get_space_first_project_runbook_and_environment asks for a first item has
\* sent exactly the request <<0, Take>> and yielded at most one item, also
\* when its first page was full; and a consumer that has stopped after one
\* item has caused one request, and none is sent after it stopped.
C19_FirstItemOnePageRequest ==
    /\ []OnePageForTheFirstItem
    /\ [][consumer = "stopped" => UNCHANGED <<requests, yielded, consumer>>]_vars

\* the three first items were taken, each from a full first page
C19_Witness ==
    /\ caller = "first" /\ consumer = "stopped"
    /\ Len(firsts) = FirstItemGenerators
    /\ \A i \in DOMAIN firsts : firsts[i].page = Take /\ firsts[i].items = <<1>>

FailedAfterRetries ==
    /\ gen_pc = "failed" =>
          /\ gen_error \in {"HTTPError", "OctopusRequestFailed", "OctopusApiKeyInvalid"}
          /\ IsHTTPError(gen_error) => attempts = Tries
          /\ Len(received) = Len(requests) - 1
          /\ yielded = [i \in 1 .. Take * (Len(requests) - 1) |-> i]
    /\ gen_pc # "failed" => gen_error = "none"

\* C20: a page fetch that fails ends the generator.  The exception that
\* leaves it is the one the batch function raised: a retried one after Tries
\* attempts, the rejected key at once.  Every item of the pages before was
\* yielded and stays yielded, and the failed generator yields nothing and
\* requests nothing any more.
C20_FailedPageEndsGenerator ==
    /\ []FailedAfterRetries
    /\ [][gen_pc = "failed" =>
             UNCHANGED <<requests, yielded, attempts, gen_pc, gen_error>>]_vars

\* the second page failed three times with a server error, after the thirty
\* items of the first page were yielded
C20_Witness ==
    /\ gen_pc = "failed" /\ gen_error = "OctopusRequestFailed" /\ attempts = Tries
    /\ Len(requests) = 2 /\ Len(yielded) = Take

RECURSIVE SumOf(_)
SumOf(sizes) == IF sizes = <<>> THEN 0 ELSE Head(sizes) + SumOf(Tail(sizes))

\* C36: a generator requests the next page if and only if the batch it has
\* just received has exactly take (30) items.  Every batch that was followed
\* by a request had exactly Take items; a generator that has ended has no
\* request unanswered, its last batch did not have Take items (fewer or
\* more), every batch before it had exactly Take, and every item of every
\* batch, the last one included, was yielded.
C36_ContinueOnlyOnFullPage ==
    /\ \A k \in DOMAIN received :
          k < Len(requests) => received[k] = Take
    /\ gen_pc = "done" =>
          /\ Len(requests) = Len(received)
          /\ received[Len(received)] # Take
          /\ \A k \in DOMAIN received : received[k] = Take <=> k < Len(received)
          /\ Len(yielded) = SumOf(received)
          /\ yielded = [i \in 1 .. SumOf(received) |-> i]

\* A full page was followed by a page of Take + 1 items: all 61 items were
\* yielded and the generator ended after two requests, although the endpoint
\* had a third page.
C36_Witness ==
    /\ gen_pc = "done"
    /\ Len(batches) >= 3
    /\ received = <<Take, Take + 1>>
    /\ requests = << <<0, Take>>, <<Take, Take>> >>
    /\ Len(yielded) = 2 * Take + 1

(***************************************************************************)
(* Properties of the log rendering                                         *)
(***************************************************************************)
RECURSIVE DescendantsOf(_)
\* The nodes strictly below a node.
DescendantsOf(node) ==
    UNION { {node.Children[i]} \cup DescendantsOf(node.Children[i]) :
              i \in DOMAIN node.Children }

\* What a visited node contributes under the current filters: its name when
\* names are included, and the messages that pass the category filter.
NodeLines(node) ==
    (IF include_name THEN {node.Name} ELSE {})
       \cup { e.MessageText : e \in { x \in Range(node.LogElements) :
                                         categories = {} \/ x.Category \in categories } }

\* Every string that belongs to a node, filtered or not.
NodeText(node) == {node.Name} \cup { e.MessageText : e \in Range(node.LogElements) }

RenderedLines == Range(rendered.lines)

\* C9: with a non-empty step filter, a top-level step that satisfies the
\* filter contributes its own name/lines and those of every descendant; a
\* top-level step that does not satisfy it contributes its own name/lines and
\* nothing of any descendant.  With steps "Step 1 Deploy", "Step 2 Notify" and
\* the filter ["1"], Step 1 and its descendants appear and Step 2 appears
\* without any descendant.
C9_LogPruning ==
    (log_pc = "done" /\ activity_logs # <<>> /\ sanitized_steps # <<>>) =>
        LET root == activity_logs[1]
        IN /\ \A i \in DOMAIN root.Children :
                LET c == root.Children[i]
                IN /\ NodeLines(c) \subseteq RenderedLines
                   /\ IF filter_logs(c, sanitized_steps)
                      THEN \A d \in DescendantsOf(c) : NodeLines(d) \subseteq RenderedLines
                      ELSE \A d \in DescendantsOf(c) : NodeText(d) \cap RenderedLines = {}
           /\ ( /\ Len(root.Children) = 2
                /\ root.Children[1].Name = Step1Deploy
                /\ root.Children[2].Name = Step2Notify
                /\ sanitized_steps = << <<"1">> >> ) =>
                 /\ \A d \in DescendantsOf(root.Children[1]) :
                       NodeLines(d) \subseteq RenderedLines
                 /\ \A d \in DescendantsOf(root.Children[2]) :
                       NodeText(d) \cap RenderedLines = {}

\* "Step 1 Deploy" and "Step 2 Notify", both with children, were rendered with
\* the filter ["1"]: the action below step 1 is there, the one below step 2 is not.
C9_Witness ==
    /\ log_pc = "done"
    /\ activity_logs # <<>>
    /\ sanitized_steps = << <<"1">> >>
    /\ include_name
    /\ Len(activity_logs[1].Children) = 2
    /\ activity_logs[1].Children[1].Name = Step1Deploy
    /\ activity_logs[1].Children[2].Name = Step2Notify
    /\ Len(activity_logs[1].Children[1].Children) = 2
    /\ Len(activity_logs[1].Children[2].Children) = 2
    /\ <<"A", "c", "t", " ", "1", "2", "1">> \in RenderedLines
    /\ Step2Notify \in RenderedLines
    /\ <<"A", "c", "t", " ", "2", "1">> \notin RenderedLines

\* C10: a root with no LogElements and no Children renders to the single line
\* "No logs found (status: <Status>)." when no category filter is active and
\* to nothing when one is; the diagnostic line is never emitted for a root
\* that has lines or children, nor for an empty node below the root.
C10_DegenerateLog ==
    (log_pc = "done" /\ activity_logs # <<>>) =>
        LET root == activity_logs[1]
        IN IF root.LogElements = <<>> /\ root.Children = <<>>
           THEN /\ categories = {} =>
                     /\ Len(rendered.lines) = 1
                     /\ rendered.lines[1] = NoLogsPrefix \o root.Status \o <<")", ".">>
                     /\ rendered.text = rendered.lines[1]
                     /\ root.Status = Str_Failed =>
                           rendered.text =
                              <<"N", "o", " ", "l", "o", "g", "s", " ", "f", "o", "u",
                                "n", "d", " ", "(", "s", "t", "a", "t", "u", "s", ":",
                                " ", "F", "a", "i", "l", "e", "d", ")", ".">>
                /\ categories # {} => rendered.lines = <<>> /\ rendered.text = <<>>
           ELSE \A status \in {Str_Success, Str_Failed} :
                   NoLogsFound(status) \notin RenderedLines

\* An empty failed root was rendered without a category filter.
C10_Witness ==
    /\ log_pc = "done"
    /\ activity_logs # <<>>
    /\ activity_logs[1].LogElements = <<>>
    /\ activity_logs[1].Children = <<>>
    /\ activity_logs[1].Status = Str_Failed
    /\ categories = {}
    /\ Len(rendered.lines) = 1

\* The root of the rendered task and whether it is the empty root.
Root == activity_logs[1]
IsEmptyRoot == Root.LogElements = <<>> /\ Root.Children = <<>>

\* The nodes the traversal visits: the root, every top-level step, and the
\* descendants of the steps that satisfy the step filter.
VisitedNodes ==
    {Root} \cup UNION { {c} \cup (IF filter_logs(c, sanitized_steps)
                                  THEN DescendantsOf(c) ELSE {}) :
                          c \in Range(Root.Children) }

\* The messages of a node that pass the category filter, in their order.
PassingMessages(node) ==
    LET passing == SelectSeq(node.LogElements,
                             LAMBDA x : categories = {} \/ x.Category \in categories)
    IN [i \in DOMAIN passing |-> passing[i].MessageText]

\* What a visited node emits itself: its name first, then its messages.
OwnLines(node) == (IF include_name THEN <<node.Name>> ELSE <<>>) \o PassingMessages(node)

\* The position of a line in the rendering (the lines of the trees are distinct).
Pos(line) == IndexOf(line, rendered.lines)

\* Where the visited part of the subtree of a node is in the rendering.
SubtreePositions(node, visited) ==
    UNION { { Pos(l) : l \in Range(OwnLines(d)) } :
              d \in ({node} \cup DescendantsOf(node)) \cap visited }

\* C11: the rendering is the depth-first pre-order traversal of the visited
\* nodes: it consists of the visited nodes' own lines, each once; a node's own
\* lines form one block, the Name (when include_name) first and the messages
\* that pass the category filter after it in their original order; every line
\* of a child's subtree comes after the node's own lines; and every line of an
\* earlier sibling's subtree comes before every line of a later sibling's.
C11_PreOrderRendering ==
    (log_pc = "done" /\ activity_logs # <<>> /\ ~IsEmptyRoot) =>
        LET visited == VisitedNodes
        IN /\ RenderedLines = UNION { Range(OwnLines(n)) : n \in visited }
           /\ Cardinality(RenderedLines) = Len(rendered.lines)
           /\ \A n \in visited :
                LET own == OwnLines(n)
                    first == IF own = <<>> THEN 0 ELSE Pos(own[1])
                    below == [i \in DOMAIN n.Children |->
                                 SubtreePositions(n.Children[i], visited)]
                IN /\ own # <<>> =>
                          SubSeq(rendered.lines, first, first + Len(own) - 1) = own
                   /\ \A i \in DOMAIN n.Children :
                        /\ \A b \in below[i] : b >= first + Len(own)
                        /\ \A j \in DOMAIN n.Children :
                              i < j => \A a \in below[i] : \A b \in below[j] : a < b

\* Two steps with two actions each were rendered with names and no filters:
\* step 1's second action and its sub-step come before step 2's name.
C11_Witness ==
    /\ log_pc = "done" /\ activity_logs # <<>>
    /\ include_name /\ sanitized_steps = <<>> /\ categories = {}
    /\ Len(Root.Children) = 2
    /\ Len(Root.Children[1].Children) = 2
    /\ Len(Root.Children[2].Children) = 2
    /\ Pos(Root.Children[1].Name) > 0
    /\ Pos(Root.Children[1].Name) < Pos(<<"A", "c", "t", " ", "1", "1">>)
    /\ Pos(<<"A", "c", "t", " ", "1", "1">>) < Pos(<<"A", "c", "t", " ", "1", "2">>)
    /\ Pos(<<"A", "c", "t", " ", "1", "2">>) < Pos(<<"A", "c", "t", " ", "1", "2", "1">>)
    /\ Pos(<<"A", "c", "t", " ", "1", "2", "1">>) < Pos(Root.Children[2].Name)
    /\ Len(rendered.lines) = 27

\* The rendering of the same logs with the same step filter and no category filter.
AllCategories ==
    activity_logs_to_string(activity_logs, sanitized_steps, {}, <<"\n">>, include_name).lines

NodeNames == {Root.Name} \cup { d.Name : d \in DescendantsOf(Root) }

\* C12: of the messages of a visited node exactly those whose Category is in a
\* non-empty category filter are emitted, in their original order, and all of
\* them when the filter is empty; the category filter changes neither the
\* nodes that are visited nor the names that are emitted: the rendering is the
\* rendering without a category filter less the messages that do not pass.
C12_CategoryFilter ==
    (log_pc = "done" /\ activity_logs # <<>> /\ ~IsEmptyRoot) =>
        LET visited == VisitedNodes
            unfiltered == AllCategories
            names == NodeNames
            lines == RenderedLines
        IN /\ \A n \in visited :
                 SelectSeq(rendered.lines,
                           LAMBDA l : \E e \in Range(n.LogElements) : e.MessageText = l)
                    = PassingMessages(n)
           /\ \A n \in ({Root} \cup DescendantsOf(Root)) \ visited :
                 NodeText(n) \cap lines = {}
           /\ SelectSeq(rendered.lines, LAMBDA l : l \in names)
                 = SelectSeq(unfiltered, LAMBDA l : l \in names)
           /\ SelectSeq(unfiltered, LAMBDA l : l \in names \/ l \in lines) = rendered.lines
           /\ categories = {} => rendered.lines = unfiltered

\* A step with an action was rendered with the filter {"Error"}: the Error
\* messages are there, the Info messages are not, the names are.
C12_Witness ==
    /\ log_pc = "done" /\ activity_logs # <<>>
    /\ categories = {"Error"} /\ include_name
    /\ Len(Root.Children) >= 1
    /\ Len(Root.Children[1].Children) = 2
    /\ <<"e", "r", "r", " ", "1", "1">> \in RenderedLines
    /\ <<"i", "n", "f", "o", " ", "1", "1">> \notin RenderedLines
    /\ <<"A", "c", "t", " ", "1", "1">> \in RenderedLines
    /\ <<"i", "n", "f", "o", " ", "1", "1">> \in Range(AllCategories)

RECURSIVE Decimal(_)
\* The decimal digits of a natural number.
Decimal(n) ==
    IF n < 10 THEN <<DigitChars[n + 1]>>
    ELSE Decimal(n \div 10) \o <<DigitChars[(n % 10) + 1]>>

\* The step filter as stated: no tokens; or a token that is an integer n with
\* the Name beginning "Step " followed by n; or a token whose normalized form
\* scores at least 80 against the normalized Name.
StepMatches(node, steps) ==
    \/ steps = <<>>
    \/ \E i \in DOMAIN steps :
          /\ string_to_int(steps[i]).kind = "int"
          /\ StartsWith(node.Name, StepPrefix \o Decimal(string_to_int(steps[i]).value))
    \/ \E i \in DOMAIN steps :
          fuzz_ratio(normalize_log_step_name(steps[i]), normalize_log_step_name(node.Name))
             >= step_name_match_ratio

\* C26: filter_logs(node, steps) is true exactly when steps is empty, or some
\* token is an integer n and the node's Name begins with "Step " followed by
\* n, or some token's normalized form scores at least 80 against the
\* normalized Name; for every integer token, 0 included.
C26_StepFilterSatisfaction ==
    (log_pc = "done" /\ activity_logs # <<>>) =>
        \A i \in DOMAIN activity_logs[1].Children :
           filter_logs(activity_logs[1].Children[i], sanitized_steps)
              <=> StepMatches(activity_logs[1].Children[i], sanitized_steps)

\* "Step 0 Init", with an action below it, was rendered with the filter
\* ["0"]: the step is not taken to satisfy the filter and its action is left out.
C26_Witness ==
    /\ log_pc = "done"
    /\ activity_logs # <<>>
    /\ sanitized_steps = << <<"0">> >>
    /\ Len(activity_logs[1].Children) = 2
    /\ activity_logs[1].Children[2].Name = Step0Init
    /\ Len(activity_logs[1].Children[2].Children) = 1
    /\ ~filter_logs(activity_logs[1].Children[2], sanitized_steps)
    /\ Step0Init \in RenderedLines
    /\ <<"A", "c", "t", " ", "2", "1">> \notin RenderedLines

\* The rendering of the same logs without a step filter.
AllSteps ==
    activity_logs_to_string(activity_logs, <<>>, categories, <<"\n">>, include_name).lines

\* C31: the step filter prunes at depth 1 only.  Whatever the filter is, the
\* root is rendered as it is without a filter and each of its children is
\* visited (its name and lines are rendered); below a depth-1 node that
\* satisfies the filter every node is rendered with its name, its lines and
\* its children, whether or not its own name satisfies the filter.
C31_PruningOnlyAtDepthOne ==
    (log_pc = "done" /\ activity_logs # <<>>) =>
        /\ IsEmptyRoot => rendered.lines = AllSteps
        /\ ~IsEmptyRoot =>
              /\ NodeLines(Root) \subseteq RenderedLines
              /\ SubSeq(rendered.lines, 1, Len(OwnLines(Root))) = OwnLines(Root)
              /\ \A i \in DOMAIN Root.Children :
                    /\ NodeLines(Root.Children[i]) \subseteq RenderedLines
                    /\ filter_logs(Root.Children[i], sanitized_steps) =>
                          \A d \in DescendantsOf(Root.Children[i]) :
                             /\ NodeLines(d) \subseteq RenderedLines
                             /\ \A j \in DOMAIN d.Children :
                                   NodeLines(d.Children[j]) \subseteq RenderedLines

\* "Step 1 Deploy" was rendered with the filter ["1"], which neither the root
\* nor the actions below the step satisfy: the root, the step, its second
\* action and that action's sub-step are all there.
C31_Witness ==
    /\ log_pc = "done" /\ activity_logs # <<>>
    /\ sanitized_steps = << <<"1">> >>
    /\ include_name /\ categories = {}
    /\ Len(Root.Children) >= 1
    /\ Root.Children[1].Name = Step1Deploy
    /\ Len(Root.Children[1].Children) = 2
    /\ ~filter_logs(Root, sanitized_steps)
    /\ \A d \in DescendantsOf(Root.Children[1]) : ~filter_logs(d, sanitized_steps)
    /\ Str_Task \in RenderedLines
    /\ <<"A", "c", "t", " ", "1", "2">> \in RenderedLines
    /\ <<"A", "c", "t", " ", "1", "2", "1">> \in RenderedLines
    /\ <<"i", "n", "f", "o", " ", "1", "2", "1">> \in RenderedLines

RECURSIVE LeadingDigits(_)
\* The digits a string begins with.
LeadingDigits(s) ==
    IF s = <<>> \/ s[1] \notin Range(DigitChars) THEN <<>>
    ELSE <<s[1]>> \o LeadingDigits(Tail(s))

\* The step number of a node named "Step <number> ...", None for other names.
StepNumber(node) ==
    IF StartsWith(node.Name, StepPrefix)
    THEN string_to_int(LeadingDigits(SubSeq(node.Name, Len(StepPrefix) + 1, Len(node.Name))))
    ELSE None

\* the step filter is one integer token that is not similar to the node's name
OnlyIntegerToken(node) ==
    /\ Len(sanitized_steps) = 1
    /\ string_to_int(sanitized_steps[1]).kind = "int"
    /\ fuzz_ratio(normalize_log_step_name(sanitized_steps[1]),
                  normalize_log_step_name(node.Name)) < step_name_match_ratio

\* C37: with a step filter that is a single integer token n (and no name
\* reaching the similarity threshold), descendants are rendered only under
\* the depth-1 node whose step number is n: the filter ["1"] expands
\* "Step 1 ..." and not "Step 10 ...".
C37_IntegerTokenSelectsOneStep ==
    (log_pc = "done" /\ activity_logs # <<>>) =>
        \A i \in DOMAIN Root.Children :
           ( /\ OnlyIntegerToken(Root.Children[i])
             /\ \E d \in DescendantsOf(Root.Children[i]) : NodeText(d) \cap RenderedLines # {} )
              => StepNumber(Root.Children[i]) = string_to_int(sanitized_steps[1])

\* "Step 10 Clean", with an action below it, was rendered with the filter
\* ["1"]: the action of step 10 is in the rendering.
C37_Witness ==
    /\ log_pc = "done" /\ activity_logs # <<>>
    /\ sanitized_steps = << <<"1">> >>
    /\ include_name
    /\ Len(Root.Children) >= 1
    /\ Root.Children[1].Name = Step10Clean
    /\ StepNumber(Root.Children[1]) = [kind |-> "int", value |-> 10]
    /\ Len(Root.Children[1].Children) = 1
    /\ <<"A", "c", "t", " ", "1", "1">> \in RenderedLines

(***************************************************************************)
(* Properties of the cached lookups                                        *)
(***************************************************************************)
LastKey == <<last_call.fn, last_call.octopus_url, last_call.space_id, last_call.name>>

\* C1: in a sequence of cached lookups, a call for a (function, server, space,
\* name) that no earlier call has resolved runs the underlying resolver and,
\* when it returns, the result is stored; every call after the first resolved
\* one for the same key returns the identical stored value and does not run
\* the resolver (so issues no remote call), whatever the server would answer now.
C1_CachedResolutionIdempotent ==
    last_call # None =>
        IF last_call.seen_before
        THEN /\ last_call.result = Return(first_result[LastKey])
             /\ ~last_call.resolver_ran
        ELSE /\ last_call.resolver_ran
             /\ last_call.result.kind = "return" =>
                   /\ LastKey \in DOMAIN first_result
                   /\ first_result[LastKey] = last_call.result.value
                   /\ LET cache == CacheOf(last_call.fn)
                      IN cache[last_call.octopus_url][last_call.space_id][last_call.name]
                            = last_call.result.value

\* A third call for a key resolved before was answered from the cache.
C1_Witness ==
    /\ last_call # None
    /\ n_calls = 3
    /\ last_call.seen_before
    /\ ~last_call.resolver_ran
    /\ last_call.result.kind = "return"
    /\ last_call.fn = "get_environment_fuzzy_cached"

\* a cache holds a value under (server, space, name)
CacheHolds(cache, octopus_url, space_id, name) ==
    /\ octopus_url \in DOMAIN cache
    /\ space_id \in DOMAIN cache[octopus_url]
    /\ name \in DOMAIN cache[octopus_url][space_id]

\* C13: once a cache holds a resolved value under a (server, space, name) key,
\* every later cached lookup, whatever its function, key, API key or outcome,
\* leaves that key in the cache with the same value.
C13_CachePermanence ==
    [][\A fn \in CachedFunctions :
         \A octopus_url \in DOMAIN CacheOf(fn) :
            \A space_id \in DOMAIN CacheOf(fn)[octopus_url] :
               \A name \in DOMAIN CacheOf(fn)[octopus_url][space_id] :
                  /\ CacheHolds(CacheOf(fn)', octopus_url, space_id, name)
                  /\ CacheOf(fn)'[octopus_url][space_id][name]
                        = CacheOf(fn)[octopus_url][space_id][name]]_vars

\* After a value was cached, a lookup of another name of the same space
\* stored a second value and a third lookup failed; the first value is still there.
C13_Witness ==
    /\ n_calls >= 3
    /\ last_call # None
    /\ last_call.result.kind = "raise"
    /\ \E k1 \in DOMAIN first_result : \E k2 \in DOMAIN first_result :
          /\ k1[1] = last_call.fn /\ k2[1] = k1[1]
          /\ k1[2] = k2[2] /\ k1[3] = k2[3] /\ k1[4] # k2[4]
          /\ CacheHolds(CacheOf(k1[1]), k1[2], k1[3], k1[4])
          /\ CacheOf(k1[1])[k1[2]][k1[3]][k1[4]] = first_result[k1]
          /\ CacheOf(k2[1])[k2[2]][k2[3]][k2[4]] = first_result[k2]

(***************************************************************************)
(* Properties of the name resolvers                                        *)
(***************************************************************************)
IsCanonicalId(fn, name) == StartsWith(name, IdPrefix(fn))

PartialNameRequest == ListRequest("partialname", "default")
FullListRequest == ListRequest("none", fallback_take(r_fn))

\* what the server answers the requests of the running resolver with
ProbeItems == ServerList(r_fn, PartialNameRequest)
FullItems == ServerList(r_fn, FullListRequest)
SpaceItems == ServerList(r_fn, ListRequest("none", "TAKE_ALL"))
ChannelItems == ServerList(r_fn, ListRequest("none", "default"))
ReleaseItems == ServerList(r_fn, ListRequest("searchByVersion", "default"))

Done == r_pc = "done"
TransportFailure ==
    /\ r_result.kind = "raise"
    /\ r_result.exc \in {"HTTPError", "OctopusRequestFailed", "OctopusApiKeyInvalid"}
RaisedNotFound ==
    /\ r_result.kind = "raise"
    /\ r_result.exc \in {"ResourceNotFound", "SpaceNotFound"}
LastCall == r_calls[Len(r_calls)]

C4_ExactProbeMatchReturned ==
    (r_fn \in TwoTierFns /\ ~IsCanonicalId(r_fn, r_name)
       /\ Len(ExactMatches(ProbeItems, r_name)) = 1) =>
        /\ \A i \in DOMAIN r_calls : r_calls[i] = PartialNameRequest
        /\ r_pc # "fallback"
        /\ Done => \/ TransportFailure
                   \/ r_result = Return(ExactMatches(ProbeItems, r_name)[1])

\* get_project_fuzzy returned the one exact match among two candidates of the
\* partial name response, after one request.
C4_Witness ==
    /\ r_fn = "get_project_fuzzy" /\ Done
    /\ Len(ProbeItems) = 2 /\ Len(ExactMatches(ProbeItems, r_name)) = 1
    /\ r_result = Return(ExactMatches(ProbeItems, r_name)[1])
    /\ r_calls = <<PartialNameRequest>>

\* C5: in a two-tier resolver, when the partial name response has no
\* candidates and exactly one resource of the complete, unfiltered list has a
\* name that equals the queried name ignoring case and surrounding whitespace,
\* a call that is not ended by a transport failure has sent the unfiltered
\* request last and returns that resource.
C5_FallbackFindsLenientMatch ==
    (r_fn \in TwoTierFns /\ ~IsCanonicalId(r_fn, r_name)
       /\ ProbeItems = <<>>
       /\ Len(LenientMatches(ServerItems(r_fn), r_name)) = 1) =>
        (Done => \/ TransportFailure
                 \/ /\ r_result = Return(LenientMatches(ServerItems(r_fn), r_name)[1])
                    /\ LastCall = FullListRequest
                    /\ \E i \in DOMAIN r_calls : r_calls[i] = PartialNameRequest)

\* get_environment_fuzzy found "dev " for the query " DEV" in the unfiltered
\* listing after an empty partial name response.
C5_Witness ==
    /\ r_fn = "get_environment_fuzzy" /\ Done
    /\ r_name = Str_sp_DEV
    /\ ProbeItems = <<>>
    /\ r_calls = <<PartialNameRequest, FullListRequest>>
    /\ r_result.kind = "return" /\ r_result.value.Name = Str_dev_sp

\* no list a resolver reads holds a candidate that its match rule accepts
NoCandidate ==
    CASE r_fn = "get_space_id_and_name_from_name" ->
            filtered_spaces(SpaceItems, r_name) = None
      [] r_fn \in TwoTierFns ->
            /\ get_item_fuzzy(ProbeItems, r_name) = None
            /\ get_item_fuzzy(FullItems, r_name) = None
      [] r_fn = "get_channel_by_name" -> get_item_fuzzy(ChannelItems, r_name) = None
      [] OTHER -> matching_releases(ReleaseItems, r_name) = <<>>

\* C6: for every resolver, a call that finds no candidate and is not ended by
\* a transport failure raises the not-found error (ResourceNotFound, or
\* SpaceNotFound for a space), and every not-found error a resolver raises
\* carries the originally queried name, after the kind where the error has one.
C6_NotFoundCarriesQueriedName ==
    /\ (r_fn \in ResolverFns /\ ~has_early_exit(r_fn, r_name) /\ NoCandidate
          /\ Done /\ ~TransportFailure) => RaisedNotFound
    /\ (Done /\ RaisedNotFound) =>
          \/ r_result = Raise("ResourceNotFound", <<Kind(r_fn), r_name>>)
          \/ r_result = Raise("SpaceNotFound", <<r_name>>)

\* C7: duplicates are never disambiguated.  When the list of spaces holds more
\* than one space whose Name equals the queried name, the space resolver ends
\* in the not-found error.  When the partial name response of a two-tier
\* resolver holds more than one such resource, the call does not end at the
\* first tier: unless a transport failure ends it, the unfiltered request is
\* its last request and it ends in the not-found error.  No candidate is
\* returned.
C7_DuplicatesNeverDisambiguated ==
    /\ (r_fn = "get_space_id_and_name_from_name" /\ ~IsCanonicalId(r_fn, r_name)
          /\ Len(ExactMatches(SpaceItems, r_name)) > 1) =>
            (Done => TransportFailure \/ r_result = NotFound(r_fn, r_name))
    /\ (r_fn \in TwoTierFns /\ ~IsCanonicalId(r_fn, r_name)
          /\ Len(ExactMatches(ProbeItems, r_name)) > 1) =>
            /\ (Done /\ ~TransportFailure) => LastCall = FullListRequest
            /\ Done => TransportFailure \/ r_result = NotFound(r_fn, r_name)

\* get_project met two projects named "Dev" in the partial name response, went
\* on to the full list and raised ResourceNotFound.
C7_Witness ==
    /\ r_fn = "get_project" /\ r_name = Str_Dev /\ Done
    /\ Len(ExactMatches(ProbeItems, r_name)) = 2
    /\ r_calls = <<PartialNameRequest, FullListRequest>>
    /\ r_result = Raise("ResourceNotFound", <<"Project", Str_Dev>>)

BothTiersExhausted ==
    /\ r_fn \in TwoTierFns /\ r_calls # <<>> /\ LastCall = FullListRequest
    /\ r_reply = 200 /\ NoCandidate

AuthAndNotFoundEndTheCall ==
    /\ r_reply = 401 =>
          /\ Done /\ r_result.kind = "raise"
          /\ r_result.exc = "OctopusApiKeyInvalid"
    /\ BothTiersExhausted =>
          /\ Done /\ r_result = Raise("ResourceNotFound", <<Kind(r_fn), r_name>>)
    /\ RaisedNotFound => Done

\* C16: the rejected key and the missing resource are never retried.  A call
\* that received a 401 has ended with OctopusApiKeyInvalid, a call that
\* exhausted both listings without a candidate has ended with ResourceNotFound,
\* every not-found error ends the call, and after a 401 or a not-found error
\* no further request is sent and the error stays the result of the call.
C16_NoRetryOfAuthAndNotFound ==
    /\ []AuthAndNotFoundEndTheCall
    /\ [][(r_reply = 401 \/ RaisedNotFound) =>
               /\ r_calls' = r_calls /\ r_result' = r_result /\ Done'
         ]_vars

\* the unfiltered listing of get_project, its second request, is answered with
\* a 401 on the first attempt: the call ends with two requests sent
C16_Witness ==
    /\ r_fn = "get_project" /\ Done /\ r_reply = 401 /\ r_tries = 1
    /\ r_calls = <<PartialNameRequest, FullListRequest>>
    /\ r_result.kind = "raise" /\ r_result.exc = "OctopusApiKeyInvalid"

\* both listings of get_environment_fuzzy were answered and hold no candidate:
\* the call ends with ResourceNotFound on the first attempt
C16_WitnessNotFound ==
    /\ r_fn = "get_environment_fuzzy" /\ Done /\ BothTiersExhausted /\ r_tries = 1
    /\ r_calls = <<PartialNameRequest, FullListRequest>>
    /\ RaisedNotFound

\* how many times the call has sent this request
Attempts(req) == Cardinality({i \in DOMAIN r_calls : r_calls[i] = req})

\* C15: a request that ends in OctopusRequestFailed is attempted again until
\* the budget of Tries attempts is used up and never more often; the error
\* reaches the caller only after Tries attempts were made, and a call whose
\* last request succeeded does not end with a transport failure.
C15_RequestFailedRetried ==
    /\ \A i \in DOMAIN r_calls : Attempts(r_calls[i]) <= Tries
    /\ (Done /\ r_result.kind = "raise" /\ r_result.exc = "OctopusRequestFailed") =>
          Len(r_calls) >= Tries
    /\ (Done /\ r_reply = 200) => ~TransportFailure

\* the listing of the spaces is answered with a 500 and the call ends with
\* OctopusRequestFailed after this one request
C15_Witness ==
    /\ r_fn = "get_space_id_and_name_from_name" /\ Done /\ r_reply = 500
    /\ r_calls = <<ListRequest("none", "TAKE_ALL")>>
    /\ r_result.kind = "raise" /\ r_result.exc = "OctopusRequestFailed"

\* C27: the second request of every two-request resolver carries no name
\* filter and asks for the take-all page size, so the list its selection runs
\* over holds every resource of the space.
C27_FallbackCoversEverything ==
    r_fn \in TwoTierFns =>
        \A i \in DOMAIN r_calls :
            (r_calls[i].op = "list" /\ r_calls[i] # PartialNameRequest) =>
                /\ r_calls[i].filter = "none"
                /\ r_calls[i].take = "TAKE_ALL"
                /\ ServerList(r_fn, r_calls[i]) = ServerItems(r_fn)

\* get_environment_fuzzy answers ResourceNotFound for a name that one
\* environment beyond the server's default page carries exactly
C27_Witness ==
    /\ r_fn = "get_environment_fuzzy" /\ Done /\ r_tries = 1
    /\ r_calls = <<PartialNameRequest, ListRequest("none", "default")>>
    /\ Len(ExactMatches(ServerItems(r_fn), r_name)) = 1
    /\ Len(ServerItems(r_fn)) > ServerDefaultTake
    /\ r_result = Raise("ResourceNotFound", <<"Environment", r_name>>)

\* C28: no resolver picks among several candidates.  A call that returns a
\* resource selected from a listing returns the only candidate of that listing
\* under its match rule: the only release of that version, the only resource
\* of exactly that name, or the only one of that name ignoring case and
\* surrounding whitespace.
C28_NoSilentPick ==
    (Done /\ r_result.kind = "return" /\ LastCall.op = "list") =>
        LET items == ServerList(r_fn, LastCall)
        IN  IF r_fn = "get_release_fuzzy"
            THEN Len(matching_releases(items, r_name)) = 1
            ELSE \/ Len(ExactMatches(items, r_name)) = 1
                 \/ Len(LenientMatches(items, r_name)) = 1

\* two releases of the project carry the version asked for and
\* get_release_fuzzy returns the first of them
C28_Witness ==
    /\ r_fn = "get_release_fuzzy" /\ Done /\ r_name = Str_Dev
    /\ Len(matching_releases(ReleaseItems, r_name)) = 2
    /\ r_result = Return(matching_releases(ReleaseItems, r_name)[1])

\* C32: within one operation no remote call is attempted more than Tries (3)
\* times, also when a retry-wrapped function calls a retry-wrapped function
\* (get_channel_by_name -> get_channels).
C32_BoundedAttempts ==
    \A i \in DOMAIN r_calls : Attempts(r_calls[i]) <= Tries

\* get_channel_by_name has ended with the transport's HTTPError after the
\* listing of the channels was requested nine times.
C32_Witness ==
    /\ r_fn = "get_channel_by_name"
    /\ Done
    /\ r_result.kind = "raise" /\ r_result.exc = "HTTPError"
    /\ Len(r_calls) = Tries * Tries
    /\ Attempts(ListRequest("none", "default")) = Tries * Tries

(***************************************************************************)
(* Properties of the GitHub workflow extractors                            *)
(***************************************************************************)
\* the value the text holds for a field: that of its first line for the
\* field, None when it has no such line
FieldValue(field) ==
    LET lines == IF wf_text = None THEN <<>> ELSE wf_lines
        hits == SelectSeq(lines, LAMBDA l : l.field = field)
    IN  IF hits = <<>> THEN None ELSE Some(hits[1].value)

\* every one of the fields is present with a non-empty value
Complete(fields) ==
    \A f \in fields : FieldValue(f) # None /\ FieldValue(f).value # <<>>

ProjectFields == {"owner", "repo", "workflow"}
ReleaseFields == {"owner", "repo", "run id"}

\* C24: the extractors are all-or-nothing and raise nothing.  The project
\* extractor returns the owner, repo and workflow of the description when all
\* three are present and non-empty and None otherwise; the release notes
\* extractor returns one entry with owner, repo and run id when all three are
\* present and non-empty and the empty list otherwise.
C24_ExtractionAllOrNothing ==
    /\ (wf_fn = "get_project_github_workflow" /\ wf_result # Pending) =>
          /\ wf_result.kind = "return"
          /\ IF Complete(ProjectFields)
             THEN wf_result.value = [ProjectId |-> wf_id,
                                     Owner |-> FieldValue("owner").value,
                                     Repo |-> FieldValue("repo").value,
                                     Workflow |-> FieldValue("workflow").value]
             ELSE wf_result.value = None
    /\ wf_desc # Pending =>
          /\ wf_desc.kind = "return"
          /\ IF Complete(ReleaseFields)
             THEN wf_desc.value = << [ReleaseId |-> wf_id,
                                      Owner |-> FieldValue("owner").value,
                                      Repo |-> FieldValue("repo").value,
                                      RunId |-> FieldValue("run id").value] >>
             ELSE wf_desc.value = <<>>

\* a description with an owner, a repo and a workflow line without a value
C24_Witness ==
    /\ wf_fn = "get_project_github_workflow" /\ wf_result = Return(None)
    /\ Len(wf_lines) = 3
    /\ \A f \in ProjectFields : FieldValue(f) # None
    /\ FieldValue("workflow").value = <<>>
    /\ FieldValue("owner").value # <<>> /\ FieldValue("repo").value # <<>>

\* a description with all three values, the owner behind a bullet
C24_WitnessComplete ==
    /\ wf_fn = "get_project_github_workflow" /\ wf_result # Pending
    /\ Complete(ProjectFields) /\ wf_result.value.Owner = <<"o", "2">>

\* the build information entries whose URL names a run
BuildMatches == SelectSeq(wf_builds, LAMBDA b : b.match # None)

\* C25: build information takes precedence.  When at least one build URL
\* names /{owner}/{repo}/actions/runs/{runId} the result is exactly the
\* entries of those URLs, in order, and the release notes extractor is not
\* called; otherwise the result is what the release notes extractor returns.
C25_BuildInformationFirst ==
    (wf_fn = "get_release_github_workflow_async" /\ wf_result # Pending) =>
        IF BuildMatches # <<>>
        THEN /\ wf_result = Return([i \in DOMAIN BuildMatches |->
                                      [ReleaseId |-> wf_id,
                                       PackageId |-> BuildMatches[i].PackageId,
                                       Owner |-> BuildMatches[i].match.Owner,
                                       Repo |-> BuildMatches[i].match.Repo,
                                       RunId |-> BuildMatches[i].match.RunId]])
             /\ wf_desc = Pending
        ELSE wf_desc # Pending /\ wf_result = wf_desc

\* one build URL names a run and the release notes are complete as well: the
\* result is the one entry of the build information
C25_Witness ==
    /\ wf_fn = "get_release_github_workflow_async" /\ wf_result # Pending
    /\ Len(wf_builds) = 2 /\ Len(BuildMatches) = 1
    /\ Complete(ReleaseFields)
    /\ Len(wf_result.value) = 1 /\ wf_result.value[1].PackageId = BuildMatches[1].PackageId

\* no build URL names a run and the release notes are complete
C25_WitnessNotes ==
    /\ wf_fn = "get_release_github_workflow_async" /\ wf_result # Pending
    /\ wf_builds # <<>> /\ BuildMatches = <<>> /\ Complete(ReleaseFields)
    /\ Len(wf_result.value) = 1 /\ wf_result.value[1].RunId = <<"4", "2">>

(***************************************************************************)
(* Properties of run_published_runbook_fuzzy                               *)
(***************************************************************************)
\* the runbook was found and has no published snapshot
FoundUnpublished ==
    rb_runbook # Pending /\ ~Truthy(rb_runbook.PublishedRunbookSnapshotId)

\* C29: when run_published_runbook_fuzzy finds the runbook but it has no
\* published snapshot, the call fails with RunbookNotPublished(runbook_name)
\* and the runbook lookup is the last remote call it made: no environment
\* lookup, no tenant lookup and no POST of a run follow it.
C29_NotPublishedSurfacedImmediately ==
    FoundUnpublished =>
        /\ rb_calls = <<"get_project_fuzzy", "get_runbook_fuzzy">>
        /\ rb_pc = "done" => rb_result = Raise("RunbookNotPublished", <<Str_Backup>>)

\* An unpublished runbook was found and the call ended with ResourceNotFound
\* for the environment, after the environment lookup.
C29_Witness ==
    /\ rb_pc = "done"
    /\ FoundUnpublished
    /\ rb_calls = <<"get_project_fuzzy", "get_runbook_fuzzy", "get_environment_fuzzy">>
    /\ rb_result = Raise("ResourceNotFound", <<"Environment", Str_Dev>>)

\* the mutation POSTs among the remote calls of the call
IsPost(label) == label \in {"POST runbookRuns", "POST releases", "POST deployments"}

PostsOf == { i \in DOMAIN rb_calls : IsPost(rb_calls[i]) }

\* the name resolutions the call has to make for its arguments
RequiredLookups ==
    CASE rb_fn = "run_published_runbook_fuzzy" ->
            {"get_project_fuzzy", "get_runbook_fuzzy", "get_environment_fuzzy"}
               \cup (IF Truthy(rb_tenant_name) THEN {"get_tenant_fuzzy"} ELSE {})
      [] rb_fn = "create_release_fuzzy" ->
            {"get_project_fuzzy", "get_release_template_and_default_branch"}
               \cup (IF Truthy(rb_channel_name) THEN {"get_channel_by_name"}
                     ELSE {"get_default_channel"})
      [] rb_fn = "deploy_release_fuzzy" ->
            {"get_environment_fuzzy"}
               \cup (IF Truthy(rb_tenant_name) THEN {"get_tenant_fuzzy"} ELSE {})
      [] OTHER -> {}

\* the POST at position i is the last call, and everything before it succeeded
PostAfterResolution(i) ==
    /\ i = Len(rb_calls)
    /\ \A j \in 1 .. (i - 1) : rb_outcomes[j] = "return"
    /\ RequiredLookups \subseteq { rb_calls[j] : j \in 1 .. (i - 1) }
    /\ (rb_fn = "run_published_runbook_fuzzy") =>
           (rb_runbook # Pending /\ Truthy(rb_runbook.PublishedRunbookSnapshotId))

\* a name resolution or the published check of the call raised
ResolutionRaised ==
    \/ \E j \in DOMAIN rb_calls : ~IsPost(rb_calls[j]) /\ rb_outcomes[j] = "raise"
    \/ (rb_result # Pending /\ rb_result.kind = "raise"
           /\ rb_result.exc = "RunbookNotPublished")

\* C33: a call of run_published_runbook_fuzzy, create_release_fuzzy or
\* deploy_release_fuzzy issues at most one mutation POST; the POST comes after
\* every name resolution the call needs has returned and, for a runbook,
\* after the published snapshot was found; when a resolution or the
\* precondition check raises, no POST is issued.
C33_MutationOnceAfterResolution ==
    /\ Cardinality(PostsOf) <= 1
    /\ \A i \in PostsOf : PostAfterResolution(i)
    /\ ResolutionRaised => PostsOf = {}

\* create_release_fuzzy resolved the project, the named channel, the template
\* and two packages, and then posted the release once.
C33_Witness ==
    /\ rb_pc = "done"
    /\ rb_fn = "create_release_fuzzy"
    /\ rb_calls = <<"get_project_fuzzy", "get_channel_by_name",
                    "get_release_template_and_default_branch", "get_packages",
                    "get_packages", "POST releases">>
    /\ rb_result.kind = "return"

(***************************************************************************)
(* Properties of get_runbook_deployment_logs                               *)
(***************************************************************************)
\* a remote call of get_runbook_deployment_logs raised
RemoteCallRaised == \E i \in DOMAIN rl_outcomes : rl_outcomes[i] = "raise"

\* the call has ended and every remote call it made returned
EndedWithoutRemoteFailure == rl_pc = "done" /\ ~RemoteCallRaised

\* the latest run's activity logs, or the empty result when there are no runs
LatestRunLogs ==
    /\ rl_runs # Pending
    /\ rl_result = IF NoRuns(rl_runs) THEN Return(StrResult(<<>>))
                   ELSE Return(ActivityLogsOf(rl_runs.items[1].Id))

\* the filter was left out: no lookup and no entry in the query
EnvironmentSkipped ==
    /\ \A i \in DOMAIN rl_calls : rl_calls[i] # "get_environment_fuzzy"
    /\ rl_query # Pending => rl_query.environment = None

TenantSkipped ==
    /\ \A i \in DOMAIN rl_calls : rl_calls[i] # "get_tenant_fuzzy"
    /\ rl_query # Pending => rl_query.tenant = None

\* C39: when environment_name (or tenant_name) of get_runbook_deployment_logs
\* is empty or None, the lookup of the environment (tenant) is not made and
\* the task list is queried without that filter; and unless a remote call
\* fails, the call returns the activity logs of the latest run, or the empty
\* result when there are no runs.
C39_OptionalFilters ==
    /\ ~Truthy(rl_environment_name) => EnvironmentSkipped
    /\ ~Truthy(rl_tenant_name) => TenantSkipped
    /\ EndedWithoutRemoteFailure => LatestRunLogs

\* Called without an environment name, the call ended with a TypeError
\* although every lookup it made had returned; the task list was never queried.
C39_Witness ==
    /\ rl_pc = "done"
    /\ ~Truthy(rl_environment_name)
    /\ ~RemoteCallRaised
    /\ rl_result = Raise("TypeError", <<>>)
    /\ rl_query = Pending
    /\ rl_calls = <<"get_space_id_and_name_from_name", "get_project", "get_runbook_fuzzy">>

(***************************************************************************)
(* Properties of the limiter and of the async fetches                      *)
(***************************************************************************)
\* the remote calls in flight
InFlight == as_inflight["get_task_details_async"] + as_inflight["get_release_async"]
               + as_inflight["get_current_user"]

\* the fetches in flight under sem
InFlightUnderSem == as_inflight["get_task_details_async"] + as_inflight["get_release_async"]

\* C23: at every moment the number of remote calls in flight is at most the
\* size of the limiter (10), however many requests are in progress.
C23_InFlightWithinLimit == InFlight <= SemaphoreSize

\* All ten permits are taken by fetches in flight, and a synchronous call is
\* in flight beside them.
C23_Witness ==
    /\ sem_value = 0
    /\ InFlightUnderSem = SemaphoreSize
    /\ as_inflight["get_current_user"] >= 1

\* C30: the status of every reply is classified before the body is used: a
\* call answered with 401 raises the authentication failure
\* (OctopusApiKeyInvalid), the async task-detail and release fetches
\* included, and a call answered with a status other than 200 or 201 never
\* returns the body as if it were the resource.
C30_StatusClassifiedFirst ==
    (as_last # Pending /\ as_last.status # 0) =>
        /\ as_last.status = 401 => as_last.result = Raise("OctopusApiKeyInvalid", <<>>)
        /\ as_last.status \notin {200, 201} => as_last.result.kind = "raise"

\* get_release_async was answered with 401 and returned the error body.
C30_Witness ==
    /\ as_last # Pending
    /\ as_last.fn = "get_release_async"
    /\ as_last.status = 401
    /\ as_last.result = Return([ErrorMessage |-> ErrorBody])

\* the fetches suspended in sem's acquire
Waiting == as_waiting["get_task_details_async"] + as_waiting["get_release_async"]

\* every permit is either available or held by a fetch in flight, so all ten
\* are available whenever no fetch is in flight
PermitsAccounted ==
    /\ sem_value + InFlightUnderSem = SemaphoreSize
    /\ InFlightUnderSem = 0 => sem_value = SemaphoreSize

\* C38: a permit taken by get_task_details_async or get_release_async is
\* given back when the fetch returns and when it raises, so that the permits
\* available and the fetches in flight always add up to 10 and all 10 are
\* available once no fetch is in flight; and, in-flight fetches terminating,
\* fetches suspended for a permit all get one eventually.
C38_PermitsNeverLeaked ==
    /\ []PermitsAccounted
    /\ (Waiting > 0) ~> (Waiting = 0)

\* A fetch has just failed in the client while a fetch was waiting: its
\* permit is available again and the other nine are held.
C38_Witness ==
    /\ Waiting > 0
    /\ as_last # Pending
    /\ as_last.fn = "get_release_async"
    /\ as_last.result = Raise("ClientError", <<>>)
    /\ sem_value = 1
    /\ InFlightUnderSem = SemaphoreSize - 1

(***************************************************************************)
(* Properties of failed and of cross-credential cached lookups             *)
(***************************************************************************)
\* the (server, space, name, value) entries a cache holds
Entries(cache) ==
    UNION { UNION { { <<u, s, n, cache[u][s][n]>> : n \in DOMAIN cache[u][s] } :
                    s \in DOMAIN cache[u] } :
            u \in DOMAIN cache }

\* this step is a call of get_environment_fuzzy_cached or
\* get_tenant_fuzzy_cached whose resolver raised
ResolverRaisedInStep ==
    /\ n_calls' = n_calls + 1
    /\ last_call'.fn \in {"get_environment_fuzzy_cached", "get_tenant_fuzzy_cached"}
    /\ last_call'.resolver_ran
    /\ last_call'.result.kind = "raise"

\* the step stored nothing: the failed name has no entry and every cache holds
\* the entries it held
NothingStoredInStep ==
    /\ Entries(environment_cache') = Entries(environment_cache)
    /\ Entries(tenant_cache') = Entries(tenant_cache)
    /\ Entries(channel_cache') = Entries(channel_cache)
    /\ ~CacheHolds(IF last_call'.fn = "get_environment_fuzzy_cached"
                   THEN environment_cache' ELSE tenant_cache',
                   last_call'.octopus_url, last_call'.space_id, last_call'.name)
    /\ last_call'.result \in
          { Raise("ResourceNotFound", <<last_call'.name>>),
            Raise("OctopusApiKeyInvalid", <<>>), Raise("OctopusRequestFailed", <<>>) }

\* this step is a call for the key whose resolution failed in the call before
SameKeyAfterFailure ==
    /\ n_calls' = n_calls + 1
    /\ last_call # None
    /\ last_call.fn \in {"get_environment_fuzzy_cached", "get_tenant_fuzzy_cached"}
    /\ last_call.resolver_ran
    /\ last_call.result.kind = "raise"
    /\ last_call'.fn = last_call.fn
    /\ last_call'.octopus_url = last_call.octopus_url
    /\ last_call'.space_id = last_call.space_id
    /\ last_call'.name = last_call.name

FailedResolutionStep ==
    /\ ResolverRaisedInStep => NothingStoredInStep
    /\ SameKeyAfterFailure => last_call'.resolver_ran

\* C34: when the resolver of get_environment_fuzzy_cached or
\* get_tenant_fuzzy_cached raises (ResourceNotFound, OctopusApiKeyInvalid or
\* OctopusRequestFailed), the call raises it, no entry is stored under the
\* name, every cache keeps exactly the entries it held, and the next call for
\* the same key runs the resolver again.
C34_FailedResolutionNotCached == [][FailedResolutionStep]_vars

\* The third call, a lookup of an environment never resolved before, failed
\* with ResourceNotFound while the cache held one entry under another key.
C34_Witness ==
    /\ n_calls = 3
    /\ last_call # None
    /\ last_call.fn = "get_environment_fuzzy_cached"
    /\ last_call.resolver_ran
    /\ last_call.result = Raise("ResourceNotFound", <<last_call.name>>)
    /\ Cardinality(Entries(environment_cache)) = 1
    /\ ~CacheHolds(environment_cache, last_call.octopus_url, last_call.space_id,
                   last_call.name)
    /\ ~last_call.seen_before

\* C35: the outcome of every cached lookup is one the server would give the
\* caller's own API key now: a caller whose key the server rejects with 401
\* gets OctopusApiKeyInvalid, never a resource that an earlier call with
\* another key left in the cache.
C35_NoLeakAcrossCredentials ==
    last_call # None =>
        last_call.result \in ResolverOutcomes(last_call.fn, last_call.name, last_call.api_key)

\* A caller with the revoked key was handed an environment from the cache:
\* the resolver was not run for it.
C35_Witness ==
    /\ last_call # None
    /\ last_call.fn = "get_environment_fuzzy_cached"
    /\ last_call.api_key = "API-REVOKED"
    /\ ~last_call.resolver_ran
    /\ last_call.result.kind = "return"

(***************************************************************************)
(* Properties of the cached lookups under two threads                      *)
(***************************************************************************)
BothDone == th_pc # <<>> /\ \A t \in Threads : th_pc[t] = "done"

SameKey == CallOf(1) = CallOf(2)

\* the thread's call returned a resource of the name it asked for, or raised
\* what its own call of the resolver raised
OwnResult(t) ==
    IF th_result[t].kind = "return"
    THEN th_result[t].value.Name = CallOf(t).name
    ELSE th_result[t] = th_outcome[t]

\* the cache of the thread's function holds an entry under the thread's key
EntryPresent(t) ==
    /\ HasSpaceTable(CacheAt(t), CallOf(t))
    /\ cache_hit(CacheAt(t), CallOf(t).octopus_url, CallOf(t).space_id, CallOf(t).name)

\* the thread's call of the resolver returned a resource
Resolved(t) == th_outcome[t] # Pending /\ th_outcome[t].kind = "return"

\* C21: two threads call the cached resolver with the same (server, space,
\* name), interleaved in any way: the resolver runs once or twice, each call
\* returns a resource resolved for the name (or raises what its own resolver
\* raised, never anything caused by the other thread), and the cache ends up
\* holding the value that was written last.
C21_SameKeyRace ==
    (BothDone /\ SameKey) =>
        /\ Cardinality({t \in Threads : th_outcome[t] # Pending}) \in {1, 2}
        /\ \A t \in Threads : OwnResult(t)
        /\ CallOf(1) \in DOMAIN last_written =>
              /\ EntryPresent(1)
              /\ CacheAt(1)[CallOf(1).octopus_url][CallOf(1).space_id][CallOf(1).name]
                    = last_written[CallOf(1)]

\* Both threads asked for the same key in a cache without tables, both
\* resolvers were run, and one call ended with a KeyError.
C21_Witness ==
    /\ BothDone /\ SameKey
    /\ \A t \in Threads : th_outcome[t] # Pending
    /\ \E t \in Threads : th_result[t].kind = "raise" /\ th_result[t].exc = "KeyError"

\* C22: two threads call cached resolvers with different keys of one server
\* (different names in one space, or different spaces), interleaved in any
\* way: each call returns the resource resolved for its own name, no call
\* raises because of the other, and once both have completed both entries
\* are in the cache.
C22_DifferentKeysIndependent ==
    (BothDone /\ ~SameKey /\ CallOf(1).octopus_url = CallOf(2).octopus_url) =>
        /\ \A t \in Threads : OwnResult(t)
        /\ (\A t \in Threads : Resolved(t)) => \A t \in Threads : EntryPresent(t)

\* Two environments of one space were looked up, both resolvers returned
\* one, both calls are over, and the cache holds only one of the two entries.
C22_Witness ==
    /\ BothDone
    /\ CallOf(1).fn = "get_environment_fuzzy_cached" /\ CallOf(2).fn = CallOf(1).fn
    /\ CallOf(1).octopus_url = CallOf(2).octopus_url
    /\ CallOf(1).space_id = CallOf(2).space_id
    /\ CallOf(1).name # CallOf(2).name
    /\ \A t \in Threads : Resolved(t)
    /\ \E t \in Threads : ~EntryPresent(t)

(***************************************************************************)
(* Specifications                                                          *)
(***************************************************************************)
NextResponseMachine ==
    \/ HandleResponse /\ UNCHANGED <<pagerVars, logVars, cacheVars, resolveVars, workflowVars, runbookVars, asyncVars, raceVars, runbookLogsVars>>
    \/ NextResponse /\ UNCHANGED <<pagerVars, logVars, cacheVars, resolveVars, workflowVars, runbookVars, asyncVars, raceVars, runbookLogsVars>>

InitResponseMachine == InitResponse /\ IdlePager /\ IdleLogs /\ IdleCache /\ IdleResolve /\ IdleWorkflow /\ IdleRunbook /\ IdleAsync /\ IdleRace /\ IdleRunbookLogs

SpecResponse == InitResponseMachine /\ [][NextResponseMachine]_vars

NextPager ==
    \/ GeneratorFetch /\ UNCHANGED <<responseVars, logVars, cacheVars, resolveVars, workflowVars, runbookVars, asyncVars, raceVars, runbookLogsVars>>
    \/ BatchReply /\ UNCHANGED <<responseVars, logVars, cacheVars, resolveVars, workflowVars, runbookVars, asyncVars, raceVars, runbookLogsVars>>
    \/ GeneratorYield /\ UNCHANGED <<responseVars, logVars, cacheVars, resolveVars, workflowVars, runbookVars, asyncVars, raceVars, runbookLogsVars>>
    \/ GeneratorStop /\ UNCHANGED <<responseVars, logVars, cacheVars, resolveVars, workflowVars, runbookVars, asyncVars, raceVars, runbookLogsVars>>
    \/ GeneratorAdvance /\ UNCHANGED <<responseVars, logVars, cacheVars, resolveVars, workflowVars, runbookVars, asyncVars, raceVars, runbookLogsVars>>
    \/ ConsumerStops /\ UNCHANGED <<responseVars, logVars, cacheVars, resolveVars, workflowVars, runbookVars, asyncVars, raceVars, runbookLogsVars>>
    \/ TakeFirst /\ UNCHANGED <<responseVars, logVars, cacheVars, resolveVars, workflowVars, runbookVars, asyncVars, raceVars, runbookLogsVars>>

InitPagerMachine == InitPager /\ IdleResponse /\ IdleLogs /\ IdleCache /\ IdleResolve /\ IdleWorkflow /\ IdleRunbook /\ IdleAsync /\ IdleRace /\ IdleRunbookLogs

SpecPaginator == InitPagerMachine /\ [][NextPager]_vars

NextLogs == RenderLogs /\ UNCHANGED <<responseVars, pagerVars, cacheVars, resolveVars, workflowVars, runbookVars, asyncVars, raceVars, runbookLogsVars>>

InitLogsMachine == InitLogs /\ IdleResponse /\ IdlePager /\ IdleCache /\ IdleResolve /\ IdleWorkflow /\ IdleRunbook /\ IdleAsync /\ IdleRace /\ IdleRunbookLogs

SpecLogs == InitLogsMachine /\ [][NextLogs]_vars

NextCache == CachedLookupAny /\ UNCHANGED <<responseVars, pagerVars, logVars, resolveVars, workflowVars, runbookVars, asyncVars, raceVars, runbookLogsVars>>

InitCacheMachine == InitCache /\ IdleResponse /\ IdlePager /\ IdleLogs /\ IdleResolve /\ IdleWorkflow /\ IdleRunbook /\ IdleAsync /\ IdleRace /\ IdleRunbookLogs

SpecCache == InitCacheMachine /\ [][NextCache]_vars

NextResolve ==
    \/ SpaceGetById /\ UNCHANGED <<responseVars, pagerVars, logVars, cacheVars, workflowVars, runbookVars, asyncVars, raceVars, runbookLogsVars>>
    \/ SpaceList /\ UNCHANGED <<responseVars, pagerVars, logVars, cacheVars, workflowVars, runbookVars, asyncVars, raceVars, runbookLogsVars>>
    \/ ProjectGetById /\ UNCHANGED <<responseVars, pagerVars, logVars, cacheVars, workflowVars, runbookVars, asyncVars, raceVars, runbookLogsVars>>
    \/ PartialNameLookup /\ UNCHANGED <<responseVars, pagerVars, logVars, cacheVars, workflowVars, runbookVars, asyncVars, raceVars, runbookLogsVars>>
    \/ FallbackLookup /\ UNCHANGED <<responseVars, pagerVars, logVars, cacheVars, workflowVars, runbookVars, asyncVars, raceVars, runbookLogsVars>>
    \/ ChannelByName /\ UNCHANGED <<responseVars, pagerVars, logVars, cacheVars, workflowVars, runbookVars, asyncVars, raceVars, runbookLogsVars>>
    \/ ReleaseFuzzy /\ UNCHANGED <<responseVars, pagerVars, logVars, cacheVars, workflowVars, runbookVars, asyncVars, raceVars, runbookLogsVars>>

InitResolveMachine == InitResolve /\ IdleResponse /\ IdlePager /\ IdleLogs /\ IdleCache /\ IdleWorkflow /\ IdleRunbook /\ IdleAsync /\ IdleRace /\ IdleRunbookLogs

SpecResolve == InitResolveMachine /\ [][NextResolve]_vars

NextWorkflow ==
    \/ ProjectWorkflow /\ UNCHANGED <<responseVars, pagerVars, logVars, cacheVars, resolveVars, runbookVars, asyncVars, raceVars, runbookLogsVars>>
    \/ ReleaseWorkflow /\ UNCHANGED <<responseVars, pagerVars, logVars, cacheVars, resolveVars, runbookVars, asyncVars, raceVars, runbookLogsVars>>

InitWorkflowMachine == InitWorkflow /\ IdleResponse /\ IdlePager /\ IdleLogs /\ IdleCache /\ IdleResolve /\ IdleRunbook /\ IdleAsync /\ IdleRace /\ IdleRunbookLogs

SpecWorkflow == InitWorkflowMachine /\ [][NextWorkflow]_vars

NextRunbook ==
    \/ RunbookProjectLookup /\ UNCHANGED <<responseVars, pagerVars, logVars, cacheVars, resolveVars, workflowVars, asyncVars, raceVars, runbookLogsVars>>
    \/ RunbookLookup /\ UNCHANGED <<responseVars, pagerVars, logVars, cacheVars, resolveVars, workflowVars, asyncVars, raceVars, runbookLogsVars>>
    \/ RunbookEnvironmentLookup /\ UNCHANGED <<responseVars, pagerVars, logVars, cacheVars, resolveVars, workflowVars, asyncVars, raceVars, runbookLogsVars>>
    \/ RunbookTenantLookup /\ UNCHANGED <<responseVars, pagerVars, logVars, cacheVars, resolveVars, workflowVars, asyncVars, raceVars, runbookLogsVars>>
    \/ RunbookPublishedCheck /\ UNCHANGED <<responseVars, pagerVars, logVars, cacheVars, resolveVars, workflowVars, asyncVars, raceVars, runbookLogsVars>>
    \/ RunbookPost /\ UNCHANGED <<responseVars, pagerVars, logVars, cacheVars, resolveVars, workflowVars, asyncVars, raceVars, runbookLogsVars>>
    \/ ReleaseProjectLookup /\ UNCHANGED <<responseVars, pagerVars, logVars, cacheVars, resolveVars, workflowVars, asyncVars, raceVars, runbookLogsVars>>
    \/ ReleaseChannelLookup /\ UNCHANGED <<responseVars, pagerVars, logVars, cacheVars, resolveVars, workflowVars, asyncVars, raceVars, runbookLogsVars>>
    \/ ReleaseTemplateLookup /\ UNCHANGED <<responseVars, pagerVars, logVars, cacheVars, resolveVars, workflowVars, asyncVars, raceVars, runbookLogsVars>>
    \/ ReleasePackageLookup /\ UNCHANGED <<responseVars, pagerVars, logVars, cacheVars, resolveVars, workflowVars, asyncVars, raceVars, runbookLogsVars>>
    \/ ReleasePost /\ UNCHANGED <<responseVars, pagerVars, logVars, cacheVars, resolveVars, workflowVars, asyncVars, raceVars, runbookLogsVars>>
    \/ DeployEnvironmentLookup /\ UNCHANGED <<responseVars, pagerVars, logVars, cacheVars, resolveVars, workflowVars, asyncVars, raceVars, runbookLogsVars>>
    \/ DeployTenantLookup /\ UNCHANGED <<responseVars, pagerVars, logVars, cacheVars, resolveVars, workflowVars, asyncVars, raceVars, runbookLogsVars>>
    \/ DeployPost /\ UNCHANGED <<responseVars, pagerVars, logVars, cacheVars, resolveVars, workflowVars, asyncVars, raceVars, runbookLogsVars>>

InitRunbookMachine == InitRunbook /\ IdleResponse /\ IdlePager /\ IdleLogs /\ IdleCache /\ IdleResolve /\ IdleWorkflow /\ IdleAsync /\ IdleRace /\ IdleRunbookLogs

SpecRunbook == InitRunbookMachine /\ [][NextRunbook]_vars

NextRunbookLogs ==
    \/ RunbookLogsSpaceLookup /\ UNCHANGED <<responseVars, pagerVars, logVars, cacheVars, resolveVars, workflowVars, runbookVars, asyncVars, raceVars>>
    \/ RunbookLogsProjectLookup /\ UNCHANGED <<responseVars, pagerVars, logVars, cacheVars, resolveVars, workflowVars, runbookVars, asyncVars, raceVars>>
    \/ RunbookLogsRunbookLookup /\ UNCHANGED <<responseVars, pagerVars, logVars, cacheVars, resolveVars, workflowVars, runbookVars, asyncVars, raceVars>>
    \/ RunbookLogsEnvironmentLookup /\ UNCHANGED <<responseVars, pagerVars, logVars, cacheVars, resolveVars, workflowVars, runbookVars, asyncVars, raceVars>>
    \/ RunbookLogsTenantLookup /\ UNCHANGED <<responseVars, pagerVars, logVars, cacheVars, resolveVars, workflowVars, runbookVars, asyncVars, raceVars>>
    \/ RunbookLogsBuildQuery /\ UNCHANGED <<responseVars, pagerVars, logVars, cacheVars, resolveVars, workflowVars, runbookVars, asyncVars, raceVars>>
    \/ RunbookLogsTaskList /\ UNCHANGED <<responseVars, pagerVars, logVars, cacheVars, resolveVars, workflowVars, runbookVars, asyncVars, raceVars>>
    \/ RunbookLogsTaskDetails /\ UNCHANGED <<responseVars, pagerVars, logVars, cacheVars, resolveVars, workflowVars, runbookVars, asyncVars, raceVars>>

InitRunbookLogsMachine == InitRunbookLogs /\ IdleResponse /\ IdlePager /\ IdleLogs /\ IdleCache /\ IdleResolve /\ IdleWorkflow /\ IdleRunbook /\ IdleAsync /\ IdleRace

SpecRunbookLogs == InitRunbookLogsMachine /\ [][NextRunbookLogs]_vars

NextAsync ==
    \/ AsyncFetchBegin /\ UNCHANGED <<responseVars, pagerVars, logVars, cacheVars, resolveVars, workflowVars, runbookVars, raceVars, runbookLogsVars>>
    \/ AsyncFetchResume /\ UNCHANGED <<responseVars, pagerVars, logVars, cacheVars, resolveVars, workflowVars, runbookVars, raceVars, runbookLogsVars>>
    \/ AsyncFetchReply /\ UNCHANGED <<responseVars, pagerVars, logVars, cacheVars, resolveVars, workflowVars, runbookVars, raceVars, runbookLogsVars>>
    \/ SyncCallBegin /\ UNCHANGED <<responseVars, pagerVars, logVars, cacheVars, resolveVars, workflowVars, runbookVars, raceVars, runbookLogsVars>>
    \/ SyncCallReply /\ UNCHANGED <<responseVars, pagerVars, logVars, cacheVars, resolveVars, workflowVars, runbookVars, raceVars, runbookLogsVars>>

InitAsyncMachine == InitAsync /\ IdleResponse /\ IdlePager /\ IdleLogs /\ IdleCache /\ IdleResolve /\ IdleWorkflow /\ IdleRunbook /\ IdleRace /\ IdleRunbookLogs

SpecAsync == InitAsyncMachine /\ [][NextAsync]_vars

\* In-flight fetches terminate, and the event loop resumes a suspended
\* acquire once a permit is available.
SpecAsyncFair ==
    /\ SpecAsync
    /\ WF_asyncVars(AsyncFetchReply)
    /\ WF_asyncVars(AsyncFetchResume)

NextRace ==
    \/ (\E t \in Threads : ServerCheck(t)) /\ UNCHANGED <<responseVars, pagerVars, logVars, resolveVars, workflowVars, runbookVars, asyncVars, channel_cache, n_calls, last_call, first_result, th_call, runbookLogsVars>>
    \/ (\E t \in Threads : ServerSet(t)) /\ UNCHANGED <<responseVars, pagerVars, logVars, resolveVars, workflowVars, runbookVars, asyncVars, channel_cache, n_calls, last_call, first_result, th_call, runbookLogsVars>>
    \/ (\E t \in Threads : SpaceCheck(t)) /\ UNCHANGED <<responseVars, pagerVars, logVars, resolveVars, workflowVars, runbookVars, asyncVars, channel_cache, n_calls, last_call, first_result, th_call, runbookLogsVars>>
    \/ (\E t \in Threads : SpaceSet(t)) /\ UNCHANGED <<responseVars, pagerVars, logVars, resolveVars, workflowVars, runbookVars, asyncVars, channel_cache, n_calls, last_call, first_result, th_call, runbookLogsVars>>
    \/ (\E t \in Threads : NameCheck(t)) /\ UNCHANGED <<responseVars, pagerVars, logVars, resolveVars, workflowVars, runbookVars, asyncVars, channel_cache, n_calls, last_call, first_result, th_call, runbookLogsVars>>
    \/ (\E t \in Threads : Resolve(t)) /\ UNCHANGED <<responseVars, pagerVars, logVars, resolveVars, workflowVars, runbookVars, asyncVars, channel_cache, n_calls, last_call, first_result, th_call, runbookLogsVars>>
    \/ (\E t \in Threads : Store(t)) /\ UNCHANGED <<responseVars, pagerVars, logVars, resolveVars, workflowVars, runbookVars, asyncVars, channel_cache, n_calls, last_call, first_result, th_call, runbookLogsVars>>
    \/ (\E t \in Threads : ReturnCached(t)) /\ UNCHANGED <<responseVars, pagerVars, logVars, resolveVars, workflowVars, runbookVars, asyncVars, channel_cache, n_calls, last_call, first_result, th_call, runbookLogsVars>>

InitRaceMachine == InitRace /\ IdleResponse /\ IdlePager /\ IdleLogs /\ IdleResolve /\ IdleWorkflow /\ IdleRunbook /\ IdleAsync /\ IdleRunbookLogs

SpecCacheRace == InitRaceMachine /\ [][NextRace]_vars

=============================================================================
